---- MODULE Spec2Model ----
(***************************************************************************)
(* TrimbleGeoDBToDatabase: the Export* functions that turn the records of  *)
(* a feature class into a SQL script.                                      *)
(*                                                                         *)
(* Text is a sequence of tokens.  A token is either one character (a      *)
(* member of Chars) or an atomic chunk standing for several characters    *)
(* that no slice of the program ever cuts (the body of a string literal,  *)
(* a field value).  Every string the program slices by a character count  *)
(* ends in at least that many one-character tokens, so s[:len(s) - k] is  *)
(* the removal of k tokens (TrimIsExact states it).                       *)
(***************************************************************************)
EXTENDS Integers, Sequences, FiniteSets, TLC

VARIABLES
    pc,                 \* "call": not yet entered, "loop": in the for loop, "returned"
    export,             \* the Export* function of this run
    workspace,          \* arcpy.env.workspace
    args,               \* the arguments of the call (ExportContinuousJoined)
    mapDeployment,      \* mapDeployment of ExportContinuousJoined
    rows,               \* the records of the feature class iterated so far
    EventExistsQuery,   \* EventExistsQuery (LakeExistQueries, joined, in ExportSecchiJoined)
    RecordExistsQuery,  \* RecordExistsQuery (ExportLoonsJoined)
    ValidateQuery,      \* ValidateQuery (PreviewQuery in ExportSecchiJoined)
    InsertQueries,      \* InsertQueries / InsertWaterSamplesQueries / InsertStatements / SQLStatements
    VegType,            \* local VegType of ExportLoonsJoined, Unbound until assigned
    Coll,               \* locals O18_Coll .. CHLA_Coll of ExportWaterSampleJoined
    i,                  \* counter i of ExportLoonsJoined
    SqlFile,            \* the text written to the output file, in order
    trimmed,            \* the tokens removed by the slices of this run
    messages,           \* what arcpy.AddMessage was given
    found,              \* what FindDuplicatePrimaryKeys returned or raised
    failures,           \* the earlier calls of the script that ended in their except branch
    now,                \* what datetime.datetime.now() returns to this call
    SqlFilePath,        \* SqlFilePath once open(SqlFilePath, 'a') has returned, None before
    FieldNames,         \* FieldNames of GetFeatureClassRows
    cursor,             \* the rows arcpy.da.SearchCursor yields, in its order
    DList,              \* DList of GetFeatureClassRows
    FeatureType,        \* FeatureType of TransformTable
    TargetFeatures,     \* the field names of TargetFeatures, None when it does not exist
    JoinFeatures,       \* the field names of JoinFeatures
    OutputFeatureClass  \* the field names of OutputFeatureClass, None until it is created

vars == <<pc, export, workspace, args, mapDeployment, rows, EventExistsQuery, RecordExistsQuery,
          ValidateQuery, InsertQueries, VegType, Coll, i, SqlFile, trimmed, messages, found,
          failures, now, SqlFilePath, FieldNames, cursor, DList, FeatureType, TargetFeatures,
          JoinFeatures, OutputFeatureClass>>

\* The state of a call of GetFeatureClassRows
reading == <<FieldNames, cursor, DList>>
\* The state of a call of TransformTable
transforming == <<FeatureType, TargetFeatures, JoinFeatures, OutputFeatureClass>>

\* The most records a feature class holds in the model.
MaxRows == 3

(***************************************************************************)
(* Python values                                                           *)
(***************************************************************************)
None == [t |-> "none"]
PyStr(s) == [t |-> "str", v |-> s]          \* a str, as its text
PyNum(n, d) == [t |-> "num", v |-> n, d |-> d]   \* the float n / 10^d
PyInt(n) == [t |-> "int", v |-> n]
PyDateTime(Y, M, D, h, m, s) == [t |-> "dt", Y |-> Y, M |-> M, D |-> D, h |-> h, m |-> m, s |-> s]
Unbound == [t |-> "unbound"]

\* The one-character tokens.
Chars == {" ", "\n", "\t", "'", ")", "(", ",", ".", "-", ":", "=",
          "0", "1", "2", "3", "4", "5", "6", "7", "8", "9",
          "A", "n", "d", "O", "r", "I", "F", "R", "E", "a", "t", "e", "b", "B", "c", "C"}
Whitespace == {" ", "\n", "\t"}

RECURSIVE Pow10(_)
Pow10(k) == IF k = 0 THEN 1 ELSE 10 * Pow10(k - 1)

RECURSIVE NatDigits(_)
NatDigits(n) == IF n < 10 THEN <<ToString(n)>>
                ELSE NatDigits(n \div 10) \o <<ToString(n % 10)>>

\* n as exactly w digits, zero padded (strftime's %Y, %m, %d, %H, %M, %S).
RECURSIVE PadDigits(_, _)
PadDigits(n, w) == IF w = 0 THEN <<>>
                   ELSE PadDigits(n \div 10, w - 1) \o <<ToString(n % 10)>>

RECURSIVE StripZeros(_)
StripZeros(s) == IF Len(s) > 1 /\ s[Len(s)] = "0"
                 THEN StripZeros(SubSeq(s, 1, Len(s) - 1)) ELSE s

Abs(n) == IF n < 0 THEN 0 - n ELSE n

\* str(x) of a float: the shortest decimal, with at least one digit after the point.
FloatStr(x) ==
    LET a == Abs(x.v)
        ip == a \div Pow10(x.d)
        fp == a % Pow10(x.d)
    IN  (IF x.v < 0 THEN <<"-">> ELSE <<>>) \o NatDigits(ip) \o <<".">>
        \o StripZeros(IF x.d = 0 THEN <<"0">> ELSE PadDigits(fp, x.d))

\* A rounding that drops the digits after the k-th
PyRoundDown(x, k) ==
    IF x.d <= k THEN x
    ELSE PyNum((IF x.v < 0 THEN 0 - 1 ELSE 1) * (Abs(x.v) \div Pow10(x.d - k)), k)

\* round(x, k) of a float: to the nearest, an exact tie to the even digit.
PyRound(x, k) ==
    IF x.d <= k THEN x
    ELSE LET m == Pow10(x.d - k)
             a == Abs(x.v)
             q == a \div m
             r == a % m
             up == (2 * r > m) \/ (2 * r = m /\ q % 2 = 1)
             q2 == IF up THEN q + 1 ELSE q
         IN  PyNum(IF x.v < 0 THEN 0 - q2 ELSE q2, k)

\* str(v)
Str(v) == CASE v.t = "none" -> <<"None">>
            [] v.t = "str" -> v.v
            [] v.t = "int" -> (IF v.v < 0 THEN <<"-">> ELSE <<>>) \o NatDigits(Abs(v.v))
            [] v.t = "num" -> FloatStr(v)

\* s.strip()
RECURSIVE LStrip(_)
LStrip(s) == IF s # <<>> /\ s[1] \in Whitespace THEN LStrip(Tail(s)) ELSE s
RECURSIVE RStrip(_)
RStrip(s) == IF s # <<>> /\ s[Len(s)] \in Whitespace
             THEN RStrip(SubSeq(s, 1, Len(s) - 1)) ELSE s
\* A strip that removes nothing
StripNothing(s) == s
Strip(s) == RStrip(LStrip(s))

\* s[:stop]
PySliceTo(s, stop) ==
    LET n == Len(s)
        e == IF stop >= 0 THEN (IF stop > n THEN n ELSE stop)
             ELSE (IF n + stop < 0 THEN 0 ELSE n + stop)
    IN  SubSeq(s, 1, e)

\* A slice that drops one character more than s[:len(s) - k]
TrimTailOneMore(s, k) == PySliceTo(s, Len(s) - k - 1)

\* s[:len(s) - k]
TrimTail(s, k) == PySliceTo(s, Len(s) - k)
\* what s[:len(s) - k] leaves out
CutTail(s, k) == SubSeq(s, Len(TrimTail(s, k)) + 1, Len(s))

(***************************************************************************)
(* TrimbleUtility                                                          *)
(***************************************************************************)
\* GetDateTime(PyDateTime, 'd'): strftime('%Y-%m-%d')
\* strftime('%d-%m-%Y'): the day first
GetDateDayFirst(dt) == PadDigits(dt.D, 2) \o <<"-">> \o PadDigits(dt.M, 2) \o <<"-">> \o PadDigits(dt.Y, 4)
GetDate(dt) == PadDigits(dt.Y, 4) \o <<"-">> \o PadDigits(dt.M, 2) \o <<"-">> \o PadDigits(dt.D, 2)
\* GetDateTime(PyDateTime, 't'): strftime('%H:%M:%S')
GetTime(dt) == PadDigits(dt.h, 2) \o <<":">> \o PadDigits(dt.m, 2) \o <<":">> \o PadDigits(dt.s, 2)

\* datetime.datetime.now(): a date and time with its microsecond
PyNow(Y, M, D, h, m, s, us) == [t |-> "dt", Y |-> Y, M |-> M, D |-> D, h |-> h, m |-> m, s |-> s, us |-> us]

\* The readings of the clock at the calls of a script, in order: two in one
\* second and one in the next.
Instants == <<PyNow(2023, 10, 2, 9, 15, 7, 250000), PyNow(2023, 10, 2, 9, 15, 7, 750000),
              PyNow(2023, 10, 2, 9, 15, 8, 250000)>>

\* The readings after dt
Later(dt) == {Instants[k] : k \in {j \in 1..Len(Instants) :
                                    \E h \in 1..(j - 1) : Instants[h] = dt}}

\* GetCurrentDatetimeStr: now.strftime('%Y-%m-%dT%H.%M.%S')
GetCurrentDatetimeStr(dt) ==
    PadDigits(dt.Y, 4) \o <<"-">> \o PadDigits(dt.M, 2) \o <<"-">> \o PadDigits(dt.D, 2)
    \o <<"T">> \o PadDigits(dt.h, 2) \o <<".">> \o PadDigits(dt.m, 2) \o <<".">> \o PadDigits(dt.s, 2)

\* The values the fields take in the model.
LakeNums == {PyStr(<<"P12">>), PyStr(<<"L7">>)}
Workspaces == {None, PyStr(<<"C:/fake_dir/fake.gdb">>)}

\* os.path.basename(GEO_DB_PATH)
SOURCE_FILE_NAME == <<"fake.gdb">>
\* os.path.dirname(arcpy.env.workspace)
DirName == <<"C:/fake_dir">>

\* FEATURE_CLASS of the exports that take no argument
FEATURE_CLASS(f) ==
    CASE f = "ExportSecchiJoined" -> "Secchi_Joined"
      [] f = "ExportDepthJoined" -> "Depth_Joined"
      [] f = "ExportLoonsJoined" -> "Loons_Joined"
      [] f = "ExportWaterSampleJoined" -> "Water_Sample_Joined"
      [] f = "ExportMonumentJoined" -> "Monument"

\* SqlFilePath of the exports that take no argument:
\* dirname + '/' + SOURCE_FILE_NAME + '_' + FEATURE_CLASS + '_Insert_' + DatetimeStr + '.sql'
InsertFilePath(f, dt) ==
    DirName \o <<"/">> \o SOURCE_FILE_NAME \o <<"_", FEATURE_CLASS(f), "_", "Insert", "_">>
    \o GetCurrentDatetimeStr(dt) \o <<".sql">>

(***************************************************************************)
(* GetFileHeader                                                           *)
(***************************************************************************)
GetFileHeader(Purpose, GeoDBPath, FeatureClass) ==
    <<"/*\n",
      "NPS Arctic and Central Alaska Inventory and Monitoring Program, Shallow Lakes Monitoring\n",
      "This script was generated by the TrimbleGeoDBToDatabase ArcTool available at https://github.com/NPS-ARCN-CAKN/TrimbleGeoDBToDatabase.\n\n",
      "Purpose: ">> \o Purpose \o <<"\n",
      "Source geodatabase: ">> \o GeoDBPath \o <<"\n",
      "FeatureClass: ", FeatureClass, "\n",
      "SQL file name: ", "<SqlFile.name>", "\n",
      "Script generated by: ", "<getpass.getuser()>", ".\n",
      "Date/time: ", "<datetime.datetime.now()>", ".\n",
      "*/\n\n">>

\* except Exception as e: arcpy.AddMessage('Error in function <f>: ' + str(e))
\* An exception that no except branch catches
RaiseUncaught(f, e) ==
    /\ messages' = messages
    /\ pc' = "raised"

Raise(f, e) ==
    /\ messages' = Append(messages, <<"Error in function ", f, e>>)
    /\ pc' = "returned"

\* The locals of a run before its loop.
Locals(guard, guard2, validate, body) ==
    /\ EventExistsQuery' = guard
    /\ RecordExistsQuery' = guard2
    /\ ValidateQuery' = validate
    /\ InsertQueries' = body
    /\ VegType' = Unbound
    /\ Coll' = Unbound
    /\ i' = 0

(***************************************************************************)
(* ExportSecchiJoined                                                      *)
(***************************************************************************)
\* Records of Secchi_Joined: at each site a record of each depth, OnBottom
\* and Comments; a record without a creation date, which is skipped before any
\* other field is read; a record with null Comments.
SecchiRows ==
    {[CreationDateTimeLocal |-> PyDateTime(2023, 9, 10, 8, 30, 0), LakeNum |-> l,
      Secchi_Depth_in_meters |-> v[1], OnBottom |-> v[2], Comments |-> v[3]] :
        l \in LakeNums,
        v \in {<<PyNum(234, 2), PyStr(<<"No">>), PyStr(<<" ", " ">>)>>,
               <<None, PyStr(<<"Yes">>), PyStr(<<" ", " ">>)>>,
               <<PyNum(238, 2), PyStr(<<"Yes">>), PyStr(<<" ", "murky", " ">>)>>}}
    \cup
    {[CreationDateTimeLocal |-> None, LakeNum |-> PyStr(<<"P12">>),
      Secchi_Depth_in_meters |-> PyNum(234, 2), OnBottom |-> PyStr(<<"No">>),
      Comments |-> PyStr(<<" ", "murky", " ">>)],
     [CreationDateTimeLocal |-> PyDateTime(2023, 9, 10, 8, 30, 0), LakeNum |-> PyStr(<<"P12">>),
      Secchi_Depth_in_meters |-> PyNum(234, 2), OnBottom |-> PyStr(<<"No">>),
      Comments |-> None]}

LakeExistQueriesComments ==
    <<"-- All the lakes in the input geodatabase must exist in tblPonds before events can be created or up",
      "d", "a", "t", "e", "d", "\n">>

SecchiPreviewPrefix ==
    <<"SELECT PONDNAME, SAMPLEDATE, SECCHIDEPTH, SECCHIONBOTTOM, SECCHINOTES FROM tblEvents WHE",
      "R", "E", " ", "\n">>

SecchiBegin ==
    /\ pc = "call" /\ export = "ExportSecchiJoined"
    /\ IF workspace = None
       THEN /\ Raise("ExportSecchiJoined", "AssertionError")
            /\ UNCHANGED <<EventExistsQuery, RecordExistsQuery, ValidateQuery,
                           InsertQueries, VegType, Coll, i>>
       ELSE /\ pc' = "loop"
            /\ Locals(<<>>, <<>>, SecchiPreviewPrefix, <<>>)
            /\ UNCHANGED messages
    /\ SqlFilePath' = IF workspace = None THEN SqlFilePath ELSE InsertFilePath(export, now)
    /\ UNCHANGED <<transforming, reading, now, failures, found, export, workspace, args, mapDeployment, rows, SqlFile, trimmed>>

\* LakeExists, with the prefix its place in LakeExistQueries gives it
SecchiLakeExists(first, PondName) ==
    <<IF first THEN "IF " ELSE "    ",
      "EXISTS (SELECT PondName FROM tblPonds WHERE Pondname = '">> \o PondName
    \o <<"'", ")", " ", "A", "n", "d", " ", "\n">>

SecchiSelectQuery(PondName, SampleDate) ==
    <<"SELECT  PONDNAME, SAMPLEDATE, SECCHIDEPTH, SECCHIONBOTTOM, SECCHINOTES FROM tblEvents WHERE Pondname = '">>
    \o PondName \o <<"' And SampleDate = '">> \o SampleDate \o <<"'">>

\* The UPDATE of one record, under its IF EXISTS
SecchiUpdate(PondName, SampleDate, SecchiDepth, SecchiOnBottom, SecchiNotes) ==
    <<"       -- Ensure the Event for these data edits exists.\n",
      "       IF EXISTS (">> \o SecchiSelectQuery(PondName, SampleDate) \o <<")\n",
      "               -- The event exists, update it.\n",
      "               ", "UPDATE tblEvents SET SECCHIDEPTH = ">> \o SecchiDepth
    \o <<", SECCHIONBOTTOM = ", SecchiOnBottom, ", ">>
    \o (IF SecchiNotes = <<>> THEN <<"SECCHINOTES = NULL">>
        ELSE <<"SECCHINOTES = '">> \o SecchiNotes \o <<"'">>)
    \o <<" WHERE Pondname = '">> \o PondName \o <<"' And SampleDate = '">> \o SampleDate \o <<"'\n\n">>

\* An INSERT of one record that is not a comment
SecchiActiveInsert(PondName, SampleDate, SecchiDepth, SecchiOnBottom, SecchiNotes) ==
    <<"               ",
      "INSERT INTO tblEvents(PONDNAME,SAMPLEDATE,SECCHIDEPTH,SECCHIONBOTTOM,SECCHINOTES) VALUES('">>
    \o PondName \o <<"','">> \o SampleDate \o <<"',">> \o SecchiDepth \o <<",", SecchiOnBottom>>
    \o (IF SecchiNotes = <<>> THEN <<",NULL);\n\n">> ELSE <<",'">> \o SecchiNotes \o <<"');\n\n">>)

\* The INSERT of one record, written as a comment, and the utility SELECT
SecchiCommentedInsert(PondName, SampleDate, SecchiDepth, SecchiOnBottom, SecchiNotes) ==
    <<"               -- The event does not exist. If you want to insert it then uncomment the INSERT query below and execute.\n",
      "               -- ",
      "INSERT INTO tblEvents(PONDNAME,SAMPLEDATE,SECCHIDEPTH,SECCHIONBOTTOM,SECCHINOTES) VALUES('">>
    \o PondName \o <<"','">> \o SampleDate \o <<"',">> \o SecchiDepth \o <<",", SecchiOnBottom>>
    \o (IF SecchiNotes = <<>> THEN <<",NULL);\n\n">> ELSE <<",'">> \o SecchiNotes \o <<"');\n\n">>)
    \o <<"               -- Utility SELECT query in case you want to manually see the event. Uncomment and execute.\n",
         "               -- ">> \o SecchiSelectQuery(PondName, SampleDate) \o <<"\n\n">>

\* The ELSE branch of one record
SecchiElse(PondName, SampleDate) ==
    <<"       ELSE\n",
      "           ", "PRINT 'The event for this record does not exist. PondName:">>
    \o PondName \o <<" SampleDate: ">> \o SampleDate \o <<"'\n\n">>

\* What one record appends to InsertQueries
SecchiInsertQueries(PondName, SampleDate, SecchiDepth, SecchiOnBottom, SecchiNotes) ==
    SecchiUpdate(PondName, SampleDate, SecchiDepth, SecchiOnBottom, SecchiNotes)
    \o SecchiCommentedInsert(PondName, SampleDate, SecchiDepth, SecchiOnBottom, SecchiNotes)
    \o SecchiElse(PondName, SampleDate)

SecchiRow ==
    /\ pc = "loop" /\ export = "ExportSecchiJoined"
    /\ Len(rows) < MaxRows
    /\ \E Row \in SecchiRows :
        /\ rows' = Append(rows, Row)
        /\ IF Row.CreationDateTimeLocal = None
           THEN UNCHANGED <<pc, EventExistsQuery, ValidateQuery, InsertQueries, messages>>
           ELSE IF Row.Comments = None
           THEN /\ Raise("ExportSecchiJoined", "AttributeError")
                /\ UNCHANGED <<EventExistsQuery, ValidateQuery, InsertQueries>>
           ELSE LET PondName == Str(Row.LakeNum)
                    SampleDate == GetDate(Row.CreationDateTimeLocal)
                    SecchiDepth == IF Row.Secchi_Depth_in_meters # None
                                   THEN Str(PyRound(Row.Secchi_Depth_in_meters, 1))
                                   ELSE <<"NULL">>
                    SecchiOnBottom == IF Row.OnBottom = PyStr(<<"Yes">>) THEN "1" ELSE "0"
                    SecchiNotes == Strip(Row.Comments.v)
                IN  /\ EventExistsQuery' = EventExistsQuery
                            \o SecchiLakeExists(EventExistsQuery = <<>>, PondName)
                    /\ InsertQueries' = InsertQueries
                            \o SecchiInsertQueries(PondName, SampleDate, SecchiDepth,
                                                   SecchiOnBottom, SecchiNotes)
                    /\ ValidateQuery' = ValidateQuery \o <<"-- (Pondname = '">> \o PondName
                            \o <<"' And SampleDate = '">> \o SampleDate
                            \o <<"'", ")", " ", "O", "r", " ", "\n">>
                    /\ UNCHANGED <<pc, messages>>
    /\ UNCHANGED <<transforming, reading, now, SqlFilePath, failures, found, export, workspace, args, mapDeployment, RecordExistsQuery, VegType, Coll, i, SqlFile, trimmed>>

SecchiEnd ==
    /\ pc = "loop" /\ export = "ExportSecchiJoined"
    /\ LET LakeExistWrite == LakeExistQueriesComments \o EventExistsQuery
       IN  /\ SqlFile' = SqlFile
                \o GetFileHeader(<<"Transfer secchi depth data from the field Trimble data collection application to the AK_ShallowLakes monitoring SQL Server database.">>,
                                 workspace.v, "Secchi_Joined")
                \o <<"/*\nREAD AND THOROUGHLY UNDERSTAND THIS SCRIPT BEFORE RUNNING.\nRunning this script may change records in the Shallow Lakes monitoring database.\nThe lakes referenced in this script must exist in the tblPonds table prior to running this script. \nSecchi depth data is stored in tblEvents. \nOn error, rollback and correct any problems, then run again. Commit changes when finished.\n*/\n\n",
                     "USE AK_ShallowLakes\n\n",
                     "-- PREVIEW OF AFFECTED RECORDS: To see the secchi depth values that may be affected uncomment and run the query below:\n",
                     "-- ">> \o TrimTail(ValidateQuery, 4) \o <<"\n\n",
                     "BEGIN TRANSACTION -- COMMIT ROLLBACK -- All queries in this transaction must succeed or fail together. COMMIT if all queries succeed. ROLLBACK if any fail. Failure to COMMIT or ROLLBACK will leave the database in a hanging state.\n\n">>
                \o TrimTail(LakeExistWrite, 6) \o <<"\nBEGIN\n">>
                \o InsertQueries
                \o <<"END\n",
                     "ELSE\n",
                     "    PRINT 'ERROR: One or more lakes are missing from tblPonds. All lakes in the insert query block must exist in tblPonds before sampling events can be created in the tblEvents table.'\n">>
           /\ trimmed' = trimmed \o CutTail(ValidateQuery, 4) \o CutTail(LakeExistWrite, 6)
    /\ messages' = Append(messages, <<"Secchi_Joined", " data written to: ", "<SqlFile.name>">>)
    /\ pc' = "returned"
    /\ UNCHANGED <<transforming, reading, now, SqlFilePath, failures, found, export, workspace, args, mapDeployment, rows, EventExistsQuery, RecordExistsQuery,
                   ValidateQuery, InsertQueries, VegType, Coll, i>>

(***************************************************************************)
(* ExportDepthJoined                                                       *)
(***************************************************************************)
DepthRows ==
    {[CreationDateTimeLocal |-> PyDateTime(2023, 9, 10, 8, 30, 0), LakeNum |-> l,
      YCurrentMapCS |-> PyNum(631234567, 7), XCurrentMapCS |-> PyNum(0 - 1501234564, 7),
      Depth_in_meters |-> v[1], Comment |-> v[2], Datafile |-> PyStr(<<"R091008A.cor">>)] :
        l \in LakeNums,
        v \in {<<PyNum(234, 2), PyStr(<<>>)>>, <<PyNum(275, 2), PyStr(<<" ", "rocky", " ">>)>>}}
    \cup
    {[CreationDateTimeLocal |-> dt, LakeNum |-> PyStr(<<"P12">>),
      YCurrentMapCS |-> y, XCurrentMapCS |-> PyNum(0 - 1501234564, 7),
      Depth_in_meters |-> dp, Comment |-> c, Datafile |-> PyStr(<<"R091008A.cor">>)] :
        <<dt, y, dp, c>> \in
          {<<None, PyNum(631234567, 7), PyNum(234, 2), PyStr(<<>>)>>,
           <<PyDateTime(2023, 9, 12, 14, 5, 9), PyNum(631234567, 7), PyNum(234, 2), PyStr(<<>>)>>,
           <<PyDateTime(2023, 9, 10, 8, 30, 0), None, PyNum(234, 2), PyStr(<<>>)>>,
           <<PyDateTime(2023, 9, 10, 8, 30, 0), PyNum(631234567, 7), None, PyStr(<<>>)>>,
           <<PyDateTime(2023, 9, 10, 8, 30, 0), PyNum(631234567, 7), PyNum(234, 2), None>>}}

\* The prefix of EventExistsQuery in the Depth, Loon and Water Sample exports
EventExistsPrefix ==
    <<"-- Determine if all the necessary parent Event records exist before trying to inse",
      "r", "t", "\n", "I", "F", "\n">>

DepthValidatePrefix ==
    <<"SELECT PONDNAME,SAMPLEDATE,GPS_TIME,LATITUDE,LONGITUDE,DEPTH,COMMENTS_DEPTHS,DATAFILE,SOURCE FROM tblPondDepths WHE",
      "R", "E", "\n">>

DepthBegin ==
    /\ pc = "call" /\ export = "ExportDepthJoined"
    /\ IF workspace = None
       THEN /\ Raise("ExportDepthJoined", "AssertionError")
            /\ UNCHANGED <<EventExistsQuery, RecordExistsQuery, ValidateQuery,
                           InsertQueries, VegType, Coll, i, SqlFile>>
       ELSE /\ pc' = "loop"
            /\ Locals(EventExistsPrefix, <<>>, DepthValidatePrefix, <<>>)
            /\ SqlFile' = SqlFile
                 \o GetFileHeader(<<"Transfer lake depth data from the field Trimble data collection application to the AK_ShallowLakes monitoring SQL Server database.">>,
                                  workspace.v, "Depth_Joined")
                 \o <<"BEGIN TRANSACTION -- COMMIT ROLLBACK\n\n">>
            /\ UNCHANGED messages
    /\ SqlFilePath' = IF workspace = None THEN SqlFilePath ELSE InsertFilePath(export, now)
    /\ UNCHANGED <<transforming, reading, now, failures, found, export, workspace, args, mapDeployment, rows, trimmed>>

\* A clause that tests the site and not the date
EventExistsClauseOfSite(PondName, SampleDate) ==
    <<" EXISTS  (SELECT PONDNAME FROM tblEvents WHERE Pondname='">> \o PondName
    \o <<"'", ")", " ", "A", "n", "d", " ", "\n", " ">>

\* The clause one record appends to EventExistsQuery (Depth and Water Sample)
EventExistsClause(PondName, SampleDate) ==
    <<" EXISTS  (SELECT PONDNAME FROM tblEvents WHERE Pondname='">> \o PondName
    \o <<"' And SampleDate = '">> \o SampleDate
    \o <<"'", ")", " ", "A", "n", "d", " ", "\n", " ">>

DepthValidateEntry(PondName, SampleDate) ==
    <<"   -- (PondName='">> \o PondName \o <<"' and  SampleDate = '">> \o SampleDate
    \o <<"'", ")", " ", "O", "r", "\n">>

DepthInsert(PondName, SampleDate, GPS_Time, Latitude, Longitude, Depth, CommentsDepths, DataFile, Source) ==
    <<"      ",
      "INSERT INTO tblPondDepths(PONDNAME,SAMPLEDATE,GPS_TIME,LATITUDE,LONGITUDE,DEPTH,COMMENTS_DEPTHS,DATAFILE,SOURCE) VALUES(",
      "'">> \o PondName \o <<"','">> \o SampleDate \o <<"','">> \o GPS_Time \o <<"',">>
    \o Latitude \o <<",">> \o Longitude \o <<",">> \o Depth
    \o (IF CommentsDepths = <<>> THEN <<",NULL,'">> ELSE <<",'">> \o CommentsDepths \o <<"','">>)
    \o DataFile \o <<"','">> \o Source \o <<"');\n">>

DepthRow ==
    /\ pc = "loop" /\ export = "ExportDepthJoined"
    /\ Len(rows) < MaxRows
    /\ \E Row \in DepthRows :
        /\ rows' = Append(rows, Row)
        /\ IF Row.CreationDateTimeLocal = None
           THEN UNCHANGED <<pc, EventExistsQuery, ValidateQuery, InsertQueries, messages>>
           ELSE IF Row.YCurrentMapCS = None \/ Row.XCurrentMapCS = None
                   \/ Row.Depth_in_meters = None
           THEN /\ Raise("ExportDepthJoined", "TypeError")
                /\ UNCHANGED <<EventExistsQuery, ValidateQuery, InsertQueries>>
           ELSE IF Row.Comment = None
           THEN /\ Raise("ExportDepthJoined", "AttributeError")
                /\ UNCHANGED <<EventExistsQuery, ValidateQuery, InsertQueries>>
           ELSE LET PondName == Str(Row.LakeNum)
                    SampleDate == GetDate(Row.CreationDateTimeLocal)
                    GPS_Time == GetTime(Row.CreationDateTimeLocal)
                    Latitude == Str(PyRound(Row.YCurrentMapCS, 6))
                    Longitude == Str(PyRound(Row.XCurrentMapCS, 6))
                    Depth == Str(PyRound(Row.Depth_in_meters, 1))
                    CommentsDepths == Strip(Row.Comment.v)
                    DataFile == Str(Row.Datafile)
                IN  /\ ValidateQuery' = ValidateQuery \o DepthValidateEntry(PondName, SampleDate)
                    /\ EventExistsQuery' = EventExistsQuery
                            \o EventExistsClause(PondName, SampleDate)
                    /\ InsertQueries' = InsertQueries
                            \o DepthInsert(PondName, SampleDate, GPS_Time, Latitude, Longitude,
                                           Depth, CommentsDepths, DataFile, SOURCE_FILE_NAME)
                    /\ UNCHANGED <<pc, messages>>
    /\ UNCHANGED <<transforming, reading, now, SqlFilePath, failures, found, export, workspace, args, mapDeployment, RecordExistsQuery, VegType, Coll, i, SqlFile, trimmed>>

DepthEnd ==
    /\ pc = "loop" /\ export = "ExportDepthJoined"
    /\ EventExistsQuery' = TrimTail(EventExistsQuery, 6) \o <<"\n">>
    /\ SqlFile' = SqlFile
         \o EventExistsQuery' \o <<"\n    BEGIN\n    -- Insert the records\n">>
         \o InsertQueries
         \o <<"   END\n",
              "ELSE\n   Print 'One or more parent Event records related to the record you are trying to insert does not exist.'\n\n",
              "-- Execute the query below to validate the inserted records.\n-- ">>
         \o TrimTail(ValidateQuery, 3)
    /\ trimmed' = trimmed \o CutTail(EventExistsQuery, 6) \o CutTail(ValidateQuery, 3)
    /\ messages' = Append(messages, <<"Depth_Joined", " data written to: ", "<SqlFile.name>">>)
    /\ pc' = "returned"
    /\ UNCHANGED <<transforming, reading, now, SqlFilePath, failures, found, export, workspace, args, mapDeployment, rows, RecordExistsQuery,
                   ValidateQuery, InsertQueries, VegType, Coll, i>>

(***************************************************************************)
(* ExportLoonsJoined                                                       *)
(***************************************************************************)
\* Records of Loons_Joined: On_Water_ "Yes", another answer, or null.
LoonRows ==
    {[CreationDateTimeLocal |-> PyDateTime(2023, 9, 10, 8, 30, 0), LakeNum |-> l,
      Loon_Species |-> PyStr(<<"COLO">>), a___of_Adults |-> PyInt(2), a___of_Young |-> PyInt(0),
      On_Water_ |-> v[1], Identification_Method |-> PyStr(<<"Visual">>),
      YCurrentMapCS |-> PyNum(631234567, 7), XCurrentMapCS |-> PyNum(0 - 1501234564, 7),
      Loon_Comments |-> v[2]] :
        l \in LakeNums,
        v \in {<<PyStr(<<"Yes">>), PyStr(<<" ">>)>>, <<PyStr(<<"No">>), PyStr(<<"pair", " ">>)>>,
               <<None, PyStr(<<" ">>)>>}}
    \cup
    {[CreationDateTimeLocal |-> dt, LakeNum |-> PyStr(<<"P12">>),
      Loon_Species |-> PyStr(<<"COLO">>), a___of_Adults |-> PyInt(2), a___of_Young |-> None,
      On_Water_ |-> PyStr(<<"Yes">>), Identification_Method |-> PyStr(<<"Visual">>),
      YCurrentMapCS |-> y, XCurrentMapCS |-> PyNum(0 - 1501234564, 7), Loon_Comments |-> c] :
        <<dt, y, c>> \in
          {<<None, PyNum(631234567, 7), PyStr(<<" ">>)>>,
           <<PyDateTime(2023, 9, 10, 8, 30, 0), None, PyStr(<<" ">>)>>,
           <<PyDateTime(2023, 9, 10, 8, 30, 0), PyNum(631234567, 7), None>>}}

LoonValidatePrefix == <<"SELECT * FROM ", "tblLoons", " WHE", "R", "E", "\n">>

\* RecordExistsQuery before the loop: the second assignment replaces the first
LoonRecordExistsPrefix == <<" ", " ", " ", " ", " ", " ", " ", " ", "I", "F", " ">>

LoonBegin ==
    /\ pc = "call" /\ export = "ExportLoonsJoined"
    /\ IF workspace = None
       THEN /\ Raise("ExportLoonsJoined", "AssertionError")
            /\ UNCHANGED <<EventExistsQuery, RecordExistsQuery, ValidateQuery,
                           InsertQueries, VegType, Coll, i, SqlFile>>
       ELSE /\ pc' = "loop"
            /\ Locals(EventExistsPrefix, LoonRecordExistsPrefix, LoonValidatePrefix, <<>>)
            /\ SqlFile' = SqlFile
                 \o GetFileHeader(<<"Transfer loon data from the field Trimble data collection application to the AK_ShallowLakes monitoring SQL Server database.">>,
                                  workspace.v, "Loons_Joined")
            /\ UNCHANGED messages
    /\ SqlFilePath' = IF workspace = None THEN SqlFilePath ELSE InsertFilePath(export, now)
    /\ UNCHANGED <<transforming, reading, now, failures, found, export, workspace, args, mapDeployment, rows, trimmed>>

\* VegType after the if / elif on the record's OnWater = str(Row['On_Water_']):
\* str() never gives None, so the elif branch is never taken.
LoonVegType(OnWater, Previous) ==
    IF OnWater = <<"Yes">> THEN PyStr(<<"WATER">>)
    ELSE IF FALSE THEN PyStr(<<>>)
    ELSE Previous

LoonEventExistsClause(PondName, SampleDate) ==
    <<"    EXISTS  (SELECT PONDNAME FROM tblEvents WHERE Pondname='">> \o PondName
    \o <<"' And SampleDate = '">> \o SampleDate
    \o <<"'", ")", " ", "A", "n", "d", " ", "\n">>

\* A clause that asks for a row of tblLoons to exist
LoonRecordExistsClausePositive(PondName, SampleDate) ==
    <<" EXISTS (SELECT * FROM tblLoons WHERE Pondname='">> \o PondName
    \o <<"' And SampleDate = '">> \o SampleDate
    \o <<"'", ")", " ", "A", "n", "d", " ", "\n">>

LoonRecordExistsClause(PondName, SampleDate) ==
    <<" NOT EXISTS (SELECT * FROM tblLoons WHERE Pondname='">> \o PondName
    \o <<"' And SampleDate = '">> \o SampleDate
    \o <<"'", ")", " ", "A", "n", "d", " ", "\n">>

LoonValidateEntry(PondName, SampleDate) ==
    <<"   -- (PondName='">> \o PondName \o <<"' and SampleDate = '">> \o SampleDate
    \o <<"'", ")", " ", "O", "r", "\n">>

LoonInsert(PondName, SampleDate, Species, NumAdults, NumYoung, DetectionType, Veg, Latitude, Longitude, Comments, Source) ==
    <<"                ", "INSERT INTO ", "tblLoons",
      "(PONDNAME,SAMPLEDATE,SPECIES,NUM_ADULTS,NUM_YOUNG,DETECTION_TYPE,VEG_TYPE,LATITUDE,LONGITUDE,COMMENTS,SOURCE) VALUES(",
      "'">> \o PondName \o <<"','">> \o SampleDate \o <<"','">> \o Species \o <<"',">>
    \o NumAdults \o <<",">> \o NumYoung \o <<",'">> \o DetectionType \o <<"'">>
    \o (IF Veg = <<>> THEN <<",NULL,">> ELSE <<",'">> \o Veg \o <<"',">>)
    \o Latitude \o <<",">> \o Longitude
    \o (IF Comments = <<>> THEN <<",NULL,'">> ELSE <<",'">> \o Comments \o <<"','">>)
    \o Source \o <<"');\n">>

LoonRow ==
    /\ pc = "loop" /\ export = "ExportLoonsJoined"
    /\ Len(rows) < MaxRows
    /\ \E Row \in LoonRows :
        /\ rows' = Append(rows, Row)
        /\ IF Row.CreationDateTimeLocal = None
           THEN UNCHANGED <<pc, EventExistsQuery, RecordExistsQuery, ValidateQuery,
                            InsertQueries, VegType, i, messages>>
           ELSE LET PondName == Str(Row.LakeNum)
                    SampleDate == GetDate(Row.CreationDateTimeLocal)
                    Species == Str(Row.Loon_Species)
                    NumAdults == Str(Row.a___of_Adults)
                    NumYoung == Str(Row.a___of_Young)
                    OnWater == Str(Row.On_Water_)
                    DetectionType == Str(Row.Identification_Method)
                IN  /\ VegType' = LoonVegType(OnWater, VegType)
                    /\ IF Row.YCurrentMapCS = None \/ Row.XCurrentMapCS = None
                       THEN /\ Raise("ExportLoonsJoined", "TypeError")
                            /\ UNCHANGED <<EventExistsQuery, RecordExistsQuery, ValidateQuery,
                                           InsertQueries, i>>
                       ELSE IF Row.Loon_Comments = None
                       THEN /\ Raise("ExportLoonsJoined", "AttributeError")
                            /\ UNCHANGED <<EventExistsQuery, RecordExistsQuery, ValidateQuery,
                                           InsertQueries, i>>
                       ELSE /\ ValidateQuery' = ValidateQuery
                                    \o LoonValidateEntry(PondName, SampleDate)
                            /\ EventExistsQuery' = EventExistsQuery
                                    \o LoonEventExistsClause(PondName, SampleDate)
                            /\ RecordExistsQuery' = RecordExistsQuery
                                    \o LoonRecordExistsClause(PondName, SampleDate)
                            /\ IF VegType' = Unbound
                               THEN /\ Raise("ExportLoonsJoined", "UnboundLocalError")
                                    /\ UNCHANGED <<InsertQueries, i>>
                               ELSE /\ InsertQueries' = InsertQueries
                                        \o LoonInsert(PondName, SampleDate, Species, NumAdults,
                                                      NumYoung, DetectionType, VegType'.v,
                                                      Str(PyRound(Row.YCurrentMapCS, 6)),
                                                      Str(PyRound(Row.XCurrentMapCS, 6)),
                                                      Strip(Row.Loon_Comments.v), SOURCE_FILE_NAME)
                                    /\ i' = i + 1
                                    /\ UNCHANGED <<pc, messages>>
    /\ UNCHANGED <<transforming, reading, now, SqlFilePath, failures, found, export, workspace, args, mapDeployment, Coll, SqlFile, trimmed>>

LoonEnd ==
    /\ pc = "loop" /\ export = "ExportLoonsJoined"
    /\ EventExistsQuery' = TrimTail(EventExistsQuery, 6) \o <<"\n">>
    /\ SqlFile' = SqlFile
         \o <<"USE AK_ShallowLakes\n\n",
              "-- Execute the query below to view/validate records that may be altered.\n-- ">>
         \o TrimTail(ValidateQuery, 3) \o <<"\n\n">>
         \o EventExistsQuery' \o <<"    BEGIN\n",
              "        PRINT 'The required parent Event records exist in tblEvents.'\n",
              "    ">> \o TrimTail(RecordExistsQuery, 6) \o <<"\n\n",
              "            BEGIN\n",
              "           -- Danger zone below. ROLLBACK on error.\n",
              "           -- Insert the records\n",
              "                PRINT 'inserts'\n",
              "                BEGIN TRANSACTION -- COMMIT ROLLBACK\n">>
         \o InsertQueries
         \o <<"               PRINT '">> \o NatDigits(i)
         \o <<" records inserted from ", "Loons_Joined", " into database table ", "tblLoons", ".'\n",
              "               PRINT 'DO NOT FORGET TO COMMIT OR ROLLBACK OR THE DATABASE WILL BE LEFT IN A HANGING STATE!!!!'\n",
              "            END\n",
              "        ELSE\n",
              "            PRINT 'One or more records exist already. Uncomment and use the validation query above to help determine which ",
              "Loons_Joined", "\\", "tblLoons", " records exist already.'\n",
              "    END\n",
              "ELSE\n    PRINT 'One or more parent Event records (tblEvents) related to the record you are trying to insert does not exist.'\n\n">>
    /\ trimmed' = trimmed \o CutTail(ValidateQuery, 3) \o CutTail(EventExistsQuery, 6)
                          \o CutTail(RecordExistsQuery, 6)
    /\ messages' = Append(messages, <<"Loons_Joined", " data written to: ", "<SqlFile.name>">>)
    /\ pc' = "returned"
    /\ UNCHANGED <<transforming, reading, now, SqlFilePath, failures, found, export, workspace, args, mapDeployment, rows, RecordExistsQuery,
                   ValidateQuery, InsertQueries, VegType, Coll, i>>

(***************************************************************************)
(* ExportWaterSampleJoined                                                 *)
(***************************************************************************)
WaterSampleRows ==
    {[CreationDateTimeLocal |-> PyDateTime(2023, 9, 10, 8, 30, 0), LakeNum |-> l,
      Sample_Number__A__B__C_ |-> v[1], Depth_in_meters |-> PyNum(234, 2),
      Comment |-> PyStr(<<>>), Water_Bottles_Collected_ |-> v[2]] :
        l \in LakeNums,
        v \in {<<PyStr(<<" ", " ">>), PyStr(<<"Yes">>)>>, <<PyStr(<<"b">>), PyStr(<<"No">>)>>,
               <<PyStr(<<"b">>), PyStr(<<>>)>>}}
    \cup
    {[CreationDateTimeLocal |-> dt, LakeNum |-> PyStr(<<"P12">>),
      Sample_Number__A__B__C_ |-> sn, Depth_in_meters |-> dp, Comment |-> c,
      Water_Bottles_Collected_ |-> w] :
        <<dt, sn, dp, c, w>> \in
          {<<None, PyStr(<<"b">>), PyNum(234, 2), PyStr(<<>>), PyStr(<<"Yes">>)>>,
           <<PyDateTime(2023, 9, 10, 8, 30, 0), PyStr(<<>>), None,
             PyStr(<<" ", "windy">>), PyStr(<<"Yes", " ">>)>>,
           <<PyDateTime(2023, 9, 10, 8, 30, 0), None, PyNum(234, 2), PyStr(<<>>), PyStr(<<"No">>)>>,
           <<PyDateTime(2023, 9, 10, 8, 30, 0), PyStr(<<"b">>), PyNum(234, 2), None, PyStr(<<"Yes">>)>>,
           <<PyDateTime(2023, 9, 10, 8, 30, 0), PyStr(<<"b">>), PyNum(234, 2), PyStr(<<>>), None>>}}

WaterSampleValidatePrefix == <<"SELECT * FROM ", "tblWaterSamples", " WHE", "R", "E", "\n">>

WaterSampleBegin ==
    /\ pc = "call" /\ export = "ExportWaterSampleJoined"
    /\ IF workspace = None
       THEN /\ Raise("ExportWaterSampleJoined", "AssertionError")
            /\ UNCHANGED <<EventExistsQuery, RecordExistsQuery, ValidateQuery,
                           InsertQueries, VegType, Coll, i, SqlFile>>
       ELSE /\ pc' = "loop"
            /\ Locals(EventExistsPrefix, <<>>, WaterSampleValidatePrefix, <<>>)
            /\ SqlFile' = SqlFile
                 \o GetFileHeader(<<"Transfer water sample data from the field Trimble data collection application to the AK_ShallowLakes monitoring SQL Server database.">>,
                                  workspace.v, "Water_Sample_Joined")
                 \o <<"BEGIN TRANSACTION -- COMMIT ROLLBACK\n\n">>
            /\ UNCHANGED messages
    /\ SqlFilePath' = IF workspace = None THEN SqlFilePath ELSE InsertFilePath(export, now)
    /\ UNCHANGED <<transforming, reading, now, failures, found, export, workspace, args, mapDeployment, rows, trimmed>>

\* s.upper(), token by token
UpperToken(c) == CASE c = "a" -> "A" [] c = "b" -> "B" [] c = "c" -> "C"
                   [] c = "None" -> "NONE" [] OTHER -> c
Upper(s) == [k \in 1..Len(s) |-> UpperToken(s[k])]

\* SampleNumber of a record (ExportWaterSampleJoined)
WaterSampleNumber(v) ==
    LET SampleNumber == Upper(Str(v))
    IN  IF Strip(SampleNumber) = <<>> THEN <<"A">> ELSE SampleNumber

\* An if / elif whose 'Yes' branch leaves CHLA_Coll at 0
WaterSampleCollWithoutChla(WaterBottlesCollected, Previous) ==
    IF WaterBottlesCollected = <<"No">>
    THEN [O18_Coll |-> "0", SI_DOC_Coll |-> "0", IONS_Coll |-> "0",
          TN_TP_Coll |-> "0", CHLA_Coll |-> "0"]
    ELSE IF WaterBottlesCollected = <<"Yes">>
    THEN [O18_Coll |-> "1", SI_DOC_Coll |-> "1", IONS_Coll |-> "1",
          TN_TP_Coll |-> "1", CHLA_Coll |-> "0"]
    ELSE Previous

\* O18_Coll, SI_DOC_Coll, IONS_Coll, TN_TP_Coll, CHLA_Coll after the if / elif
WaterSampleColl(WaterBottlesCollected, Previous) ==
    IF WaterBottlesCollected = <<"No">>
    THEN [O18_Coll |-> "0", SI_DOC_Coll |-> "0", IONS_Coll |-> "0",
          TN_TP_Coll |-> "0", CHLA_Coll |-> "0"]
    ELSE IF WaterBottlesCollected = <<"Yes">>
    THEN [O18_Coll |-> "1", SI_DOC_Coll |-> "1", IONS_Coll |-> "1",
          TN_TP_Coll |-> "1", CHLA_Coll |-> "1"]
    ELSE Previous

WaterSampleValidateEntry(PondName, SampleDate, SampleNumber) ==
    <<"   -- (PondName='">> \o PondName \o <<"' and  SampleDate = '">> \o SampleDate
    \o <<"' and SampleNumber = '">> \o SampleNumber
    \o <<"'", ")", " ", "O", "r", "\n">>

WaterSampleInsert(PondName, SampleDate, SampleNumber, SampleTime, SampleDepth, Depth, C, Notes) ==
    <<"INSERT INTO tblWaterSamples([PONDNAME],[SAMPLEDATE],[SAMPLENUMBER],[SAMPLETIME],[SAMPLEDEPTH],[DEPTH],[O18_COLL],[SI_DOC_COLL],[IONS_COLL],[TN_TP_COLL],[CHLA_COLL],[Notes]) VALUES('">>
    \o PondName \o <<"','">> \o SampleDate \o <<"','">> \o SampleNumber \o <<"','">>
    \o SampleTime \o <<"',">> \o SampleDepth \o <<",">> \o Depth
    \o <<",", C.O18_Coll, ",", C.SI_DOC_Coll, ",", C.IONS_Coll, ",", C.TN_TP_Coll, ",", C.CHLA_Coll>>
    \o (IF Notes = <<>> THEN <<",NULL">> ELSE <<",'">> \o Notes \o <<"'">>)
    \o <<")\n">>

WaterSampleRow ==
    /\ pc = "loop" /\ export = "ExportWaterSampleJoined"
    /\ Len(rows) < MaxRows
    /\ \E Row \in WaterSampleRows :
        /\ rows' = Append(rows, Row)
        /\ IF Row.CreationDateTimeLocal = None
           THEN UNCHANGED <<pc, EventExistsQuery, ValidateQuery, InsertQueries, Coll, messages>>
           ELSE IF Row.Comment = None \/ Row.Water_Bottles_Collected_ = None
           THEN /\ Raise("ExportWaterSampleJoined", "AttributeError")
                /\ UNCHANGED <<EventExistsQuery, ValidateQuery, InsertQueries, Coll>>
           ELSE LET PondName == Str(Row.LakeNum)
                    SampleDate == GetDate(Row.CreationDateTimeLocal)
                    SampleNumber == WaterSampleNumber(Row.Sample_Number__A__B__C_)
                    SampleTime == GetTime(Row.CreationDateTimeLocal)
                    Depth == IF Row.Depth_in_meters # None THEN Str(Row.Depth_in_meters)
                             ELSE <<"NULL">>
                    SampleDepth == Str(PyNum(5, 1))
                    Notes == Strip(Row.Comment.v)
                    WaterBottlesCollected == Strip(Row.Water_Bottles_Collected_.v)
                IN  /\ Coll' = WaterSampleColl(WaterBottlesCollected, Coll)
                    /\ ValidateQuery' = ValidateQuery
                            \o WaterSampleValidateEntry(PondName, SampleDate, SampleNumber)
                    /\ EventExistsQuery' = EventExistsQuery
                            \o EventExistsClause(PondName, SampleDate)
                    /\ IF Coll' = Unbound
                       THEN /\ Raise("ExportWaterSampleJoined", "UnboundLocalError")
                            /\ UNCHANGED InsertQueries
                       ELSE /\ InsertQueries' = InsertQueries
                                \o WaterSampleInsert(PondName, SampleDate, SampleNumber,
                                                     SampleTime, SampleDepth, Depth, Coll', Notes)
                            /\ UNCHANGED <<pc, messages>>
    /\ UNCHANGED <<transforming, reading, now, SqlFilePath, failures, found, export, workspace, args, mapDeployment, RecordExistsQuery, VegType, i, SqlFile, trimmed>>

WaterSampleEnd ==
    /\ pc = "loop" /\ export = "ExportWaterSampleJoined"
    /\ EventExistsQuery' = TrimTail(EventExistsQuery, 6) \o <<"\n">>
    /\ SqlFile' = SqlFile
         \o EventExistsQuery' \o <<"\n    BEGIN\n    -- Insert the records\n\n",
              "-- Insert the water samples first\n">>
         \o InsertQueries
         \o <<"   END\n",
              "ELSE\n   Print 'One or more parent Event records related to the record you are trying to insert does not exist.'\n\n",
              "-- Execute the query below to validate the inserted records.\n-- ">>
         \o TrimTail(ValidateQuery, 3)
    /\ trimmed' = trimmed \o CutTail(EventExistsQuery, 6) \o CutTail(ValidateQuery, 3)
    /\ messages' = Append(messages, <<"Water_Sample_Joined", " data written to: ", "<SqlFile.name>">>)
    /\ pc' = "returned"
    /\ UNCHANGED <<transforming, reading, now, SqlFilePath, failures, found, export, workspace, args, mapDeployment, rows, RecordExistsQuery,
                   ValidateQuery, InsertQueries, VegType, Coll, i>>

(***************************************************************************)
(* WrapSQLStatementsInTransaction                                          *)
(***************************************************************************)
\* A shell that commits before the statements
WrapAfterCommit(SQLStatements) ==
    <<"BEGIN TRY\n",
      "    BEGIN TRANSACTION\n\n",
      "\n     COMMIT TRANSACTION\n">>
    \o SQLStatements
    \o <<"     PRINT N'Successfully inserted ALL records and committed them.'\n",
         "END TRY\n",
         "BEGIN CATCH -- ROLLBACK\n",
         "    IF @@TRANCOUNT > 0\n",
         "    BEGIN\n",
         "        ROLLBACK TRANSACTION\n",
         "        PRINT N'Rolling back transaction; NO records have been inserted.'\n",
         "    END\n",
         "END CATCH\n\n">>

WrapSQLStatementsInTransaction(SQLStatements) ==
    <<"BEGIN TRY\n",
      "    BEGIN TRANSACTION\n\n">>
    \o SQLStatements
    \o <<"\n     COMMIT TRANSACTION\n",
         "     PRINT N'Successfully inserted ALL records and committed them.'\n",
         "END TRY\n",
         "BEGIN CATCH -- ROLLBACK\n",
         "    IF @@TRANCOUNT > 0\n",
         "    BEGIN\n",
         "        DECLARE @error_msg NVARCHAR(MAX)\n",
         "        SELECT @error_msg = ERROR_MESSAGE()\n",
         "        PRINT N'Error: ' + @error_msg + char(13) + char(10) + char(13) + char(10)\n",
         "        ROLLBACK TRANSACTION\n",
         "        PRINT N'Rolling back transaction; NO records have been inserted.'\n",
         "    END\n",
         "END CATCH\n\n">>

(***************************************************************************)
(* ExportMonumentJoined                                                    *)
(***************************************************************************)
MonumentRows ==
    {[CreationDateTimeLocal |-> v[1], LakeNum |-> l,
      YCurrentMapCS |-> PyNum(631234567, 7), XCurrentMapCS |-> PyNum(0 - 1501234564, 7),
      FeatureHeight |-> v[2], MonType |-> PyStr(<<"Rebar">>),
      Location |-> v[3], Comment |-> v[4],
      AccessType |-> PyStr(<<"Float plane">>), DeviceType |-> PyStr(<<"GeoXH">>),
      CorrStatus |-> PyStr(<<"Postprocessed Code">>),
      HorizEstAcc |-> PyNum(3, 1), VertEstAcc |-> PyNum(5, 1)] :
        l \in LakeNums,
        v \in {<<PyDateTime(2023, 9, 10, 8, 30, 0), PyNum(2105, 1), PyStr(<<" ">>), PyStr(<<>>)>>,
               <<PyDateTime(2023, 9, 10, 8, 30, 0), PyNum(2105, 1), PyStr(<<"north shore", " ">>),
                 PyStr(<<"bent">>)>>,
               <<None, PyNum(2105, 1), PyStr(<<" ">>), PyStr(<<>>)>>,
               <<PyDateTime(2023, 9, 10, 8, 30, 0), None, None, PyStr(<<>>)>>}}

MonumentBegin ==
    /\ pc = "call" /\ export = "ExportMonumentJoined"
    /\ IF workspace = None
       THEN /\ Raise("ExportMonumentJoined", "AssertionError")
            /\ UNCHANGED <<EventExistsQuery, RecordExistsQuery, ValidateQuery,
                           InsertQueries, VegType, Coll, i, SqlFile>>
       ELSE /\ pc' = "loop"
            /\ Locals(<<>>, <<>>, <<>>, <<>>)
            /\ SqlFile' = SqlFile
                 \o GetFileHeader(<<"Transfer monument data from the field Trimble data collection application to the AK_ShallowLakes monitoring SQL Server database.\n">>,
                                  workspace.v, "Monument")
            /\ UNCHANGED messages
    /\ SqlFilePath' = IF workspace = None THEN SqlFilePath ELSE InsertFilePath(export, now)
    /\ UNCHANGED <<transforming, reading, now, failures, found, export, workspace, args, mapDeployment, rows, trimmed>>

MonumentInsert(PondName, MonumentDate, LatitudeNAD83, LongitudeNAD83, Elevation, LocType, LocMaterial, LocNotes, LocComments, AccessType, GPSType, GPSTime, CorrType, EstHError, EstVError) ==
    <<"        ", "INSERT INTO ", "tblMonuments", " ",
      "([PONDNAME], [M_DATE], [M_LAT_NAD83], [M_LON_NAD83], [M_ELEVATION], [M_LOC_TYPE], ",
      "[M_LOC_MATERIAL], [M_LOC_NOTES], [M_LOC_COMMENTS], [M_ACCESSTYPE], [M_GPSTYPE], [M_GPSTIME], ",
      "[M_CORR_TYPE], [M_EST_H_ERROR], [M_EST_V_ERROR]) ",
      "VALUES (",
      "'">> \o PondName \o <<"','">> \o MonumentDate \o <<"',">> \o LatitudeNAD83 \o <<",">>
    \o LongitudeNAD83 \o <<",">> \o Elevation \o <<",'">> \o LocType
    \o <<"','">> \o LocMaterial \o <<"'">>
    \o (IF Strip(LocNotes) = <<>> THEN <<",NULL">> ELSE <<",'">> \o LocNotes \o <<"'">>)
    \o (IF Strip(LocComments) = <<>> THEN <<",NULL">> ELSE <<",'">> \o LocComments \o <<"'">>)
    \o <<",'">> \o AccessType \o <<"','">> \o GPSType \o <<"','">> \o GPSTime
    \o <<"','">> \o CorrType \o <<"',">> \o EstHError \o <<",">> \o EstVError \o <<")\n">>

\* A loop that writes each statement to the file as it reads the record
MonumentRowWritesAtOnce ==
    /\ pc = "loop" /\ export = "ExportMonumentJoined"
    /\ Len(rows) < MaxRows
    /\ \E Row \in MonumentRows :
        /\ rows' = Append(rows, Row)
        /\ IF Row.CreationDateTimeLocal = None
           THEN /\ Raise("ExportMonumentJoined", "AttributeError")
                /\ UNCHANGED <<InsertQueries, SqlFile>>
           ELSE IF Row.YCurrentMapCS = None \/ Row.XCurrentMapCS = None
           THEN /\ Raise("ExportMonumentJoined", "TypeError")
                /\ UNCHANGED <<InsertQueries, SqlFile>>
           ELSE IF Row.Location = None \/ Row.Comment = None
           THEN /\ Raise("ExportMonumentJoined", "AttributeError")
                /\ UNCHANGED <<InsertQueries, SqlFile>>
           ELSE IF \E f \in {Row.LakeNum, Row.MonType, Row.AccessType, Row.DeviceType,
                             Row.CorrStatus} : f = None
           THEN /\ Raise("ExportMonumentJoined", "TypeError")
                /\ UNCHANGED <<InsertQueries, SqlFile>>
           ELSE /\ InsertQueries' = InsertQueries
                    \o MonumentInsert(Row.LakeNum.v, GetDate(Row.CreationDateTimeLocal),
                                      Str(PyRound(Row.YCurrentMapCS, 6)),
                                      Str(PyRound(Row.XCurrentMapCS, 6)),
                                      Str(Row.FeatureHeight), Row.MonType.v, Row.MonType.v,
                                      Row.Location.v, Row.Comment.v, Row.AccessType.v,
                                      Row.DeviceType.v, GetTime(Row.CreationDateTimeLocal),
                                      Row.CorrStatus.v, Str(Row.HorizEstAcc), Str(Row.VertEstAcc))
                /\ SqlFile' = SqlFile
                    \o MonumentInsert(Row.LakeNum.v, GetDate(Row.CreationDateTimeLocal),
                                      Str(PyRound(Row.YCurrentMapCS, 6)),
                                      Str(PyRound(Row.XCurrentMapCS, 6)),
                                      Str(Row.FeatureHeight), Row.MonType.v, Row.MonType.v,
                                      Row.Location.v, Row.Comment.v, Row.AccessType.v,
                                      Row.DeviceType.v, GetTime(Row.CreationDateTimeLocal),
                                      Row.CorrStatus.v, Str(Row.HorizEstAcc), Str(Row.VertEstAcc))
                /\ UNCHANGED <<pc, messages>>
    /\ UNCHANGED <<transforming, reading, now, SqlFilePath, failures, found, export, workspace, args, mapDeployment, EventExistsQuery, RecordExistsQuery, ValidateQuery,
                   VegType, Coll, i, trimmed>>

\* The loop body has no test of PySampleDateTime: GetDateTime(None, 'd') raises.
MonumentRow ==
    /\ pc = "loop" /\ export = "ExportMonumentJoined"
    /\ Len(rows) < MaxRows
    /\ \E Row \in MonumentRows :
        /\ rows' = Append(rows, Row)
        /\ IF Row.CreationDateTimeLocal = None
           THEN /\ Raise("ExportMonumentJoined", "AttributeError")
                /\ UNCHANGED InsertQueries
           ELSE IF Row.YCurrentMapCS = None \/ Row.XCurrentMapCS = None
           THEN /\ Raise("ExportMonumentJoined", "TypeError")
                /\ UNCHANGED InsertQueries
           ELSE IF Row.Location = None \/ Row.Comment = None
           THEN /\ Raise("ExportMonumentJoined", "AttributeError")
                /\ UNCHANGED InsertQueries
           ELSE IF \E f \in {Row.LakeNum, Row.MonType, Row.AccessType, Row.DeviceType,
                             Row.CorrStatus} : f = None
           THEN /\ Raise("ExportMonumentJoined", "TypeError")
                /\ UNCHANGED InsertQueries
           ELSE /\ InsertQueries' = InsertQueries
                    \o MonumentInsert(Row.LakeNum.v, GetDate(Row.CreationDateTimeLocal),
                                      Str(PyRound(Row.YCurrentMapCS, 6)),
                                      Str(PyRound(Row.XCurrentMapCS, 6)),
                                      Str(Row.FeatureHeight), Row.MonType.v, Row.MonType.v,
                                      Row.Location.v, Row.Comment.v, Row.AccessType.v,
                                      Row.DeviceType.v, GetTime(Row.CreationDateTimeLocal),
                                      Row.CorrStatus.v, Str(Row.HorizEstAcc), Str(Row.VertEstAcc))
                /\ UNCHANGED <<pc, messages>>
    /\ UNCHANGED <<transforming, reading, now, SqlFilePath, failures, found, export, workspace, args, mapDeployment, EventExistsQuery, RecordExistsQuery, ValidateQuery,
                   VegType, Coll, i, SqlFile, trimmed>>

MonumentEnd ==
    /\ pc = "loop" /\ export = "ExportMonumentJoined"
    /\ SqlFile' = SqlFile \o WrapSQLStatementsInTransaction(InsertQueries)
    /\ pc' = "returned"
    /\ UNCHANGED <<transforming, reading, now, SqlFilePath, failures, found, export, workspace, args, mapDeployment, rows, EventExistsQuery, RecordExistsQuery,
                   ValidateQuery, InsertQueries, VegType, Coll, i, trimmed, messages>>

(***************************************************************************)
(* ExportContinuousJoined                                                  *)
(***************************************************************************)
\* A str as its characters (a date given as fromDate, toDate or DateDeployed)
Date(Y, M, D) == PadDigits(Y, 4) \o <<"-">> \o PadDigits(M, 2) \o <<"-">> \o PadDigits(D, 2)

\* ord(c) of the characters of a date
Ord(c) == CASE c = "-" -> 45 [] c = "0" -> 48 [] c = "1" -> 49 [] c = "2" -> 50
            [] c = "3" -> 51 [] c = "4" -> 52 [] c = "5" -> 53 [] c = "6" -> 54
            [] c = "7" -> 55 [] c = "8" -> 56 [] c = "9" -> 57

\* a <= b of two str: the order of the first character that differs, a prefix first
RECURSIVE StrLeq(_, _)
StrLeq(a, b) == IF a = <<>> THEN TRUE
                ELSE IF b = <<>> THEN FALSE
                ELSE IF a[1] = b[1] THEN StrLeq(Tail(a), Tail(b))
                ELSE Ord(a[1]) < Ord(b[1])

\* A csv.DictReader: the rows of its file and how many of them it has yielded
DictReader(r) == [t |-> "DictReader", rows |-> r, read |-> 0]
\* for row in csvDict: the rows the reader has yet to yield
Unread(csvDict) == SubSeq(csvDict.rows, csvDict.read + 1, Len(csvDict.rows))
\* the arguments once the loop of CSVDictToKeyedDict has run the reader to its end
Exhausted(a) == [a EXCEPT !.DeployedCSV.read = Len(a.DeployedCSV.rows)]

\* SQLOperationStr
SQLOperationStr(ContinuousType) ==
    IF ContinuousType = "DEPLOYMENT_INSERT" THEN "Insert" ELSE "Update"

\* A dictionary that holds every site of the records, not only the sites of
\* the cross-reference
CSVDictOfEverySite(csvDict) ==
    [s \in {<<"P12">>, <<"L7">>} |->
        IF \E k \in 1..Len(csvDict) : csvDict[k].SiteName = s
        THEN csvDict[CHOOSE k \in 1..Len(csvDict) :
                        /\ csvDict[k].SiteName = s
                        /\ \A j \in (k + 1)..Len(csvDict) : csvDict[j].SiteName # s].DateDeployed
        ELSE <<"2", "0", "2", "3", "-", "0", "9", "-", "0", "1">>]

\* A dictionary that keeps the first DateDeployed of a site
RECURSIVE CSVDictFirstWins(_)
CSVDictFirstWins(csvDict) ==
    IF csvDict = <<>> THEN [k \in {} |-> <<>>]
    ELSE (csvDict[1].SiteName :> csvDict[1].DateDeployed) @@ CSVDictFirstWins(Tail(csvDict))

\* CSVDictToKeyedDict: d[row['SiteName']] = row['DateDeployed'], row after row
RECURSIVE CSVDictToKeyedDict(_)
CSVDictToKeyedDict(csvDict) ==
    IF csvDict = <<>> THEN [k \in {} |-> <<>>]
    ELSE LET n == Len(csvDict)
             row == csvDict[n]
         IN  (row.SiteName :> row.DateDeployed) @@ CSVDictToKeyedDict(SubSeq(csvDict, 1, n - 1))

\* The arguments of the calls of the model
NoArgs == [ContinuousType |-> "", fromDate |-> <<>>, toDate |-> <<>>,
           DeployedCSV |-> None, KeepUpdateNotes |-> FALSE]

\* The rows of the cross-reference file: a site twice, with two dates, and a
\* site once between them.
DeployedRows == <<[SiteName |-> <<"L7">>, DateDeployed |-> Date(2023, 9, 1)],
                  [SiteName |-> <<"K3">>, DateDeployed |-> Date(2023, 9, 2)],
                  [SiteName |-> <<"L7">>, DateDeployed |-> Date(2023, 9, 8)]>>

ContinuousArgs ==
    {[ContinuousType |-> ct, fromDate |-> Date(2023, 9, 8), toDate |-> Date(2023, 9, 25),
      DeployedCSV |-> csv, KeepUpdateNotes |-> k] :
        <<ct, csv, k>> \in
          ({"DEPLOYMENT_UPDATE", "RETRIEVAL_UPDATE"} \X {DictReader(DeployedRows)} \X BOOLEAN)
          \cup {<<"DEPLOYMENT_INSERT", None, FALSE>>,
                <<"DEPLOYMENT_INSERT", DictReader(DeployedRows), FALSE>>,
                <<"RETRIEVAL_UPDATE", None, FALSE>>,
                <<"DEPLOYMENT_UPDATE", [t |-> "list", rows |-> DeployedRows], FALSE>>,
                <<"RETRIEVAL", DictReader(DeployedRows), FALSE>>}}

\* Records of Deployment_Joined and Retrieval_Joined: at the site of the
\* cross-reference, records created inside the range, on its first day at
\* midnight, on its last day one second before midnight, the second before the
\* range and after it, and one without a creation date; at the other site one
\* created inside the range and one without a creation date.
ContinuousRows ==
    {[CreationDateTimeLocal |-> v[2], LakeNum |-> PyStr(<<v[1]>>), Deployment_Type |-> PyStr(<<"HOBO">>),
      YCurrentMapCS |-> PyNum(631234567, 7), XCurrentMapCS |-> PyNum(0 - 1501234564, 7),
      Comments |-> PyStr(v[3])] :
        v \in {<<"L7", PyDateTime(2023, 9, 12, 14, 5, 9), <<>> >>,
               <<"L7", PyDateTime(2023, 9, 12, 14, 5, 9), <<"moved">> >>,
               <<"L7", PyDateTime(2023, 9, 8, 0, 0, 0), <<" ">> >>,
               <<"L7", PyDateTime(2023, 9, 25, 23, 59, 59), <<>> >>,
               <<"L7", PyDateTime(2023, 9, 7, 23, 59, 59), <<>> >>,
               <<"L7", PyDateTime(2023, 9, 30, 8, 30, 0), <<>> >>,
               <<"L7", None, <<>> >>,
               <<"P12", PyDateTime(2023, 9, 12, 14, 5, 9), <<"moved">> >>,
               <<"P12", None, <<>> >>}}

FeatureClassOf(ContinuousType) ==
    IF ContinuousType = "RETRIEVAL_UPDATE" THEN "Retrieval_Joined" ELSE "Deployment_Joined"

\* SqlFilePath of ExportContinuousJoined: dirname + '/' + SOURCE_FILE_NAME + '_'
\* + FEATURE_CLASS + SQLOperationStr + fromDate + '_to_' + toDate + '_' + DatetimeStr + '.sql'
ContinuousFilePath(a, dt) ==
    DirName \o <<"/">> \o SOURCE_FILE_NAME
    \o <<"_", FeatureClassOf(a.ContinuousType), "_", SQLOperationStr(a.ContinuousType), "_">>
    \o a.fromDate \o <<"_to_">> \o a.toDate \o <<"_">> \o GetCurrentDatetimeStr(dt) \o <<".sql">>

\* An ExportContinuousJoined that opens its file and writes the header before
\* it looks at its arguments
ContinuousBeginOpensFirst ==
    /\ pc = "call" /\ export = "ExportContinuousJoined"
    /\ LET ct == args.ContinuousType
           isReader == args.DeployedCSV # None /\ args.DeployedCSV.t = "DictReader"
           refused == \/ ct = "DEPLOYMENT_INSERT" /\ args.DeployedCSV # None
                      \/ ct \in {"DEPLOYMENT_UPDATE", "RETRIEVAL_UPDATE"} /\ ~isReader
                      \/ ct \notin {"DEPLOYMENT_INSERT", "DEPLOYMENT_UPDATE", "RETRIEVAL_UPDATE"}
       IN  /\ IF workspace = None
              THEN Raise("ExportContinuousJoined", "AssertionError") /\ UNCHANGED SqlFile
              ELSE /\ SqlFile' = SqlFile
                        \o GetFileHeader(<<"Transfer ", FeatureClassOf(ct), " data\n">>,
                                         workspace.v, FeatureClassOf(ct))
                   /\ IF refused THEN Raise("ExportContinuousJoined", "AssertionError")
                      ELSE pc' = "loop" /\ UNCHANGED messages
           /\ mapDeployment' = IF isReader /\ ct # "DEPLOYMENT_INSERT"
                               THEN CSVDictToKeyedDict(Unread(args.DeployedCSV))
                               ELSE mapDeployment
           /\ args' = IF isReader /\ ct # "DEPLOYMENT_INSERT" THEN Exhausted(args) ELSE args
           /\ SqlFilePath' = IF workspace = None THEN SqlFilePath
                             ELSE ContinuousFilePath(args, now)
    /\ UNCHANGED <<transforming, reading, now, failures, found, export, workspace, rows, trimmed, EventExistsQuery,
                   RecordExistsQuery, ValidateQuery, InsertQueries, VegType, Coll, i>>

ContinuousBegin ==
    /\ pc = "call" /\ export = "ExportContinuousJoined"
    /\ LET ct == args.ContinuousType
           isReader == args.DeployedCSV # None /\ args.DeployedCSV.t = "DictReader"
           fail(e) == /\ Raise("ExportContinuousJoined", e)
                      /\ UNCHANGED <<EventExistsQuery, RecordExistsQuery, ValidateQuery,
                                     InsertQueries, VegType, Coll, i, SqlFile, mapDeployment,
                                     args, SqlFilePath>>
       IN  IF ct = "DEPLOYMENT_INSERT" /\ args.DeployedCSV # None THEN fail("AssertionError")
           ELSE IF ct \in {"DEPLOYMENT_UPDATE", "RETRIEVAL_UPDATE"} /\ ~isReader
           THEN fail("AssertionError")
           ELSE IF ct \notin {"DEPLOYMENT_INSERT", "DEPLOYMENT_UPDATE", "RETRIEVAL_UPDATE"}
           THEN fail("Exception")
           ELSE IF workspace = None
           THEN /\ Raise("ExportContinuousJoined", "AssertionError")
                /\ mapDeployment' = IF ct = "DEPLOYMENT_INSERT" THEN mapDeployment
                                    ELSE CSVDictToKeyedDict(Unread(args.DeployedCSV))
                /\ args' = IF ct = "DEPLOYMENT_INSERT" THEN args ELSE Exhausted(args)
                /\ UNCHANGED <<EventExistsQuery, RecordExistsQuery, ValidateQuery,
                               InsertQueries, VegType, Coll, i, SqlFile, SqlFilePath>>
           ELSE /\ pc' = "loop"
                /\ mapDeployment' = IF ct = "DEPLOYMENT_INSERT" THEN mapDeployment
                                    ELSE CSVDictToKeyedDict(Unread(args.DeployedCSV))
                /\ args' = IF ct = "DEPLOYMENT_INSERT" THEN args ELSE Exhausted(args)
                /\ SqlFilePath' = ContinuousFilePath(args, now)
                /\ Locals(<<>>, <<>>, <<>>, <<>>)
                /\ SqlFile' = SqlFile
                     \o GetFileHeader(<<"Transfer ", FeatureClassOf(ct),
                                        " data from the field Trimble data collection application to the AK_ShallowLakes monitoring SQL Server database.\n">>,
                                      workspace.v, FeatureClassOf(ct))
                /\ UNCHANGED messages
    /\ UNCHANGED <<transforming, reading, now, failures, found, export, workspace, rows, trimmed>>

DeploymentInsert(SiteName, DateDeployed, TimeDeployed, DeploymentType, DeployLatitude, DeployLongitude, DeploymentNotes) ==
    <<"INSERT INTO dbo.", "tblContinuousDataDeployments", "\n",
      "([SiteName] ,[DateDeployed] ,[TimeDeployed] ,[DeploymentType] ,[DeployLatitude] ,[DeployLongitude] ,[DeploymentNotes])\n",
      "VALUES (",
      "'">> \o SiteName \o <<"', '">> \o DateDeployed \o <<"', '">> \o TimeDeployed \o <<"'">>
    \o (IF DeploymentType = None THEN <<", NULL">> ELSE <<", '">> \o DeploymentType.v \o <<"'">>)
    \o <<", ">> \o DeployLatitude \o <<", ">> \o DeployLongitude
    \o (IF Strip(DeploymentNotes) = <<>> THEN <<", NULL">>
        ELSE <<", '">> \o DeploymentNotes \o <<"'">>)
    \o <<")\n\n">>

\* A deployment UPDATE that assigns the notes whatever KeepUpdateNotes is
DeploymentUpdateWithNotes(SiteName, DateDeployed, DeployLatitude, DeployLongitude, DeploymentNotes, Keep) ==
    <<"UPDATE dbo.", "tblContinuousDataDeployments", "\n",
      "SET [DeployLatitude] = ">> \o DeployLatitude \o <<",\n">>
    \o <<"    [DeployLongitude] = ">> \o DeployLongitude \o <<",\n",
          "    [DeploymentNotes] = ">>
    \o (IF Strip(DeploymentNotes) = <<>> THEN <<"NULL">> ELSE <<"'">> \o DeploymentNotes \o <<"'">>)
    \o <<"\n">>
    \o <<"WHERE SiteName = '">> \o SiteName \o <<"' AND DateDeployed = '">> \o DateDeployed
    \o <<"'\n\n">>

DeploymentUpdate(SiteName, DateDeployed, DeployLatitude, DeployLongitude, DeploymentNotes, Keep) ==
    <<"UPDATE dbo.", "tblContinuousDataDeployments", "\n",
      "SET [DeployLatitude] = ">> \o DeployLatitude \o <<",\n">>
    \o (LET DeploymentNotesStr == IF Strip(DeploymentNotes) = <<>> THEN <<"NULL">>
                                  ELSE <<"'">> \o DeploymentNotes \o <<"'">>
        IN  IF Keep
            THEN <<"    [DeployLongitude] = ">> \o DeployLongitude \o <<",\n",
                   "    [DeploymentNotes] = ">> \o DeploymentNotesStr \o <<"\n">>
            ELSE <<"    [DeployLongitude] = ">> \o DeployLongitude \o <<"\n",
                   "--  [DeploymentNotes] = ">> \o DeploymentNotesStr \o <<"\n">>)
    \o <<"WHERE SiteName = '">> \o SiteName \o <<"' AND DateDeployed = '">> \o DateDeployed
    \o <<"'\n\n">>

\* A retrieval UPDATE that finds its row by the record's own date
RetrievalUpdateOnOwnDate(SiteName, DateDeployed, DateRetrieved, TimeRetrieved, RetrieveLatitude, RetrieveLongitude, RetrievalNotes, Keep) ==
    <<"UPDATE dbo.", "tblContinuousDataDeployments", "\n",
      "SET [DateRetrieved] = '">> \o DateRetrieved \o <<"',\n",
      "    [TimeRetrieved] = '">> \o TimeRetrieved \o <<"',\n",
      "    [RetrieveLatitude] = ">> \o RetrieveLatitude \o <<",\n">>
    \o (LET RetrievalNotesStr == IF Strip(RetrievalNotes) = <<>> THEN <<"NULL">>
                                 ELSE <<"'">> \o RetrievalNotes \o <<"'">>
        IN  IF Keep
            THEN <<"    [RetrieveLongitude] = ">> \o RetrieveLongitude \o <<",\n",
                   "    [RetrievalNotes] = ">> \o RetrievalNotesStr \o <<"\n">>
            ELSE <<"    [RetrieveLongitude] = ">> \o RetrieveLongitude \o <<"\n",
                   "--  [RetrievalNotes] = ">> \o RetrievalNotesStr \o <<"\n">>)
    \o <<"WHERE SiteName = '">> \o SiteName \o <<"' AND DateDeployed = '">> \o DateRetrieved
    \o <<"'\n\n">>

RetrievalUpdate(SiteName, DateDeployed, DateRetrieved, TimeRetrieved, RetrieveLatitude, RetrieveLongitude, RetrievalNotes, Keep) ==
    <<"UPDATE dbo.", "tblContinuousDataDeployments", "\n",
      "SET [DateRetrieved] = '">> \o DateRetrieved \o <<"',\n",
      "    [TimeRetrieved] = '">> \o TimeRetrieved \o <<"',\n",
      "    [RetrieveLatitude] = ">> \o RetrieveLatitude \o <<",\n">>
    \o (LET RetrievalNotesStr == IF Strip(RetrievalNotes) = <<>> THEN <<"NULL">>
                                 ELSE <<"'">> \o RetrievalNotes \o <<"'">>
        IN  IF Keep
            THEN <<"    [RetrieveLongitude] = ">> \o RetrieveLongitude \o <<",\n",
                   "    [RetrievalNotes] = ">> \o RetrievalNotesStr \o <<"\n">>
            ELSE <<"    [RetrieveLongitude] = ">> \o RetrieveLongitude \o <<"\n",
                   "--  [RetrievalNotes] = ">> \o RetrievalNotesStr \o <<"\n">>)
    \o <<"WHERE SiteName = '">> \o SiteName \o <<"' AND DateDeployed = '">> \o DateDeployed
    \o <<"'\n\n">>

\* A range that leaves out its two ends
InRangeExclusive(d, fromDate, toDate) ==
    StrLeq(fromDate, d) /\ StrLeq(d, toDate) /\ d # fromDate /\ d # toDate

InRange(d, fromDate, toDate) == StrLeq(fromDate, d) /\ StrLeq(d, toDate)

\* The loop body has no test of PySampleDateTime: GetDateTime(None, 'd') raises,
\* in the update modes once the record's site is a key of mapDeployment.
ContinuousRow ==
    /\ pc = "loop" /\ export = "ExportContinuousJoined"
    /\ Len(rows) < MaxRows
    /\ \E Row \in ContinuousRows :
        LET PySampleDateTime == Row.CreationDateTimeLocal
            SiteName == Row.LakeNum
            ct == args.ContinuousType
            skip == UNCHANGED <<pc, InsertQueries, messages>>
            fail(e) == Raise("ExportContinuousJoined", e) /\ UNCHANGED InsertQueries
            emit(s) == InsertQueries' = InsertQueries \o s /\ UNCHANGED <<pc, messages>>
        IN  /\ rows' = Append(rows, Row)
            /\ IF ct = "DEPLOYMENT_INSERT"
               THEN IF PySampleDateTime = None THEN fail("AttributeError")
                    ELSE IF ~InRange(GetDate(PySampleDateTime), args.fromDate, args.toDate)
                    THEN skip
                    ELSE IF Row.Comments = None THEN fail("AttributeError")
                    ELSE IF SiteName = None THEN fail("TypeError")
                    ELSE emit(DeploymentInsert(SiteName.v, GetDate(PySampleDateTime),
                                               GetTime(PySampleDateTime), Row.Deployment_Type,
                                               Str(Row.YCurrentMapCS), Str(Row.XCurrentMapCS),
                                               Row.Comments.v))
               ELSE IF SiteName = None \/ SiteName.v \notin DOMAIN mapDeployment THEN skip
               ELSE IF PySampleDateTime = None THEN fail("AttributeError")
               ELSE IF ~InRange(GetDate(PySampleDateTime), args.fromDate, args.toDate) THEN skip
               ELSE IF Row.YCurrentMapCS = None \/ Row.XCurrentMapCS = None THEN fail("TypeError")
               ELSE IF Row.Comments = None THEN fail("AttributeError")
               ELSE IF ct = "DEPLOYMENT_UPDATE"
               THEN emit(DeploymentUpdate(SiteName.v, mapDeployment[SiteName.v],
                                          Str(PyRound(Row.YCurrentMapCS, 6)),
                                          Str(PyRound(Row.XCurrentMapCS, 6)),
                                          Row.Comments.v, args.KeepUpdateNotes))
               ELSE emit(RetrievalUpdate(SiteName.v, mapDeployment[SiteName.v],
                                         GetDate(PySampleDateTime), GetTime(PySampleDateTime),
                                         Str(PyRound(Row.YCurrentMapCS, 6)),
                                         Str(PyRound(Row.XCurrentMapCS, 6)),
                                         Row.Comments.v, args.KeepUpdateNotes))
    /\ UNCHANGED <<transforming, reading, now, SqlFilePath, failures, found, export, workspace, args, mapDeployment, EventExistsQuery, RecordExistsQuery,
                   ValidateQuery, VegType, Coll, i, SqlFile, trimmed>>

ContinuousEnd ==
    /\ pc = "loop" /\ export = "ExportContinuousJoined"
    /\ SqlFile' = SqlFile \o WrapSQLStatementsInTransaction(InsertQueries)
    /\ pc' = "returned"
    /\ UNCHANGED <<transforming, reading, now, SqlFilePath, failures, found, export, workspace, args, mapDeployment, rows, EventExistsQuery,
                   RecordExistsQuery, ValidateQuery, InsertQueries, VegType, Coll, i,
                   trimmed, messages>>

(***************************************************************************)
(* TestTrimbleGeoDB: FindDuplicatePrimaryKeys                              *)
(***************************************************************************)
\* The positional parameters of TrimbleUtility.GetFeatureClassRows
GetFeatureClassRowsParams == 1
\* The positional arguments GetPrimaryKeys calls it with: (arcpy, FeatureClassName)
GetPrimaryKeysCallArgs == 2

Finders == {"FindDuplicateWaterSampleKeys", "FindDuplicateSecchiKeys",
            "FindDuplicateLoonKeys", "FindDuplicatePondDepthKeys"}

FeatureClassName(finder) ==
    CASE finder = "FindDuplicateWaterSampleKeys" -> "Water_Sample_Joined"
      [] finder = "FindDuplicateSecchiKeys" -> "Secchi_Joined"
      [] finder = "FindDuplicateLoonKeys" -> "Loons_Joined"
      [] finder = "FindDuplicatePondDepthKeys" -> "Depth_Joined"

FeatureClassRows(fc) ==
    CASE fc = "Water_Sample_Joined" -> WaterSampleRows
      [] fc = "Secchi_Joined" -> SecchiRows
      [] fc = "Loons_Joined" -> LoonRows
      [] fc = "Depth_Joined" -> DepthRows

\* The feature classes of at most MaxRows records
FeatureClasses(fc) ==
    UNION {[1..n -> FeatureClassRows(fc)] : n \in 0..MaxRows}

\* RowKey of one record
RowKey(fc, Row) ==
    LET PondName == Str(Row.LakeNum)
        SampleDate == GetDate(Row.CreationDateTimeLocal)
    IN  Upper(IF fc = "Water_Sample_Joined"
              THEN LET SampleNumber == Str(Row.Sample_Number__A__B__C_)
                   IN  PondName \o SampleDate
                       \o (IF Strip(SampleNumber) = <<>> THEN <<"A">> ELSE SampleNumber)
              ELSE IF fc = "Depth_Joined"
              THEN PondName \o SampleDate \o GetTime(Row.CreationDateTimeLocal)
              ELSE PondName \o SampleDate)

\* GetPrimaryKeys' dictionary d after the records fcRows
RECURSIVE GetPrimaryKeys(_, _)
GetPrimaryKeys(fc, fcRows) ==
    IF fcRows = <<>> THEN [k \in {} |-> 0]
    ELSE LET n == Len(fcRows)
             Row == fcRows[n]
             d == GetPrimaryKeys(fc, SubSeq(fcRows, 1, n - 1))
         IN  IF Row.CreationDateTimeLocal = None THEN d
             ELSE LET k == RowKey(fc, Row)
                  IN  IF k \in DOMAIN d THEN [d EXCEPT ![k] = @ + 1]
                      ELSE (k :> 1) @@ d

FilterDuplicates(d) == [k \in {x \in DOMAIN d : d[x] > 1} |-> d[k]]

\* FindDuplicate*Keys(arcpy): the call of GetFeatureClassRows raises TypeError when
\* its arguments are not as many as the parameters; nothing catches it.
FindDuplicatePrimaryKeys ==
    /\ pc = "call" /\ export \in Finders
    /\ IF GetPrimaryKeysCallArgs # GetFeatureClassRowsParams
       THEN /\ pc' = "raised"
            /\ found' = [t |-> "TypeError"]
            /\ UNCHANGED rows
       ELSE \E fcRows \in FeatureClasses(FeatureClassName(export)) :
            /\ pc' = "returned"
            /\ rows' = fcRows
            /\ found' = [t |-> "dict",
                         d |-> FilterDuplicates(GetPrimaryKeys(FeatureClassName(export), fcRows))]
    /\ UNCHANGED <<transforming, reading, now, SqlFilePath, failures, export, workspace, args, mapDeployment, EventExistsQuery, RecordExistsQuery,
                   ValidateQuery, InsertQueries, VegType, Coll, i, SqlFile, trimmed, messages>>

(***************************************************************************)
(* The runs                                                                *)
(***************************************************************************)
Exports == {"ExportSecchiJoined", "ExportDepthJoined", "ExportLoonsJoined",
            "ExportWaterSampleJoined", "ExportMonumentJoined",
            "ExportContinuousJoined"}

Init ==
    /\ pc = "call"
    /\ export \in Exports \cup Finders
    /\ workspace \in Workspaces
    /\ args \in (IF export = "ExportContinuousJoined" THEN ContinuousArgs ELSE {NoArgs})
    /\ mapDeployment = [k \in {} |-> <<>>]
    /\ rows = <<>>
    /\ EventExistsQuery = <<>>
    /\ RecordExistsQuery = <<>>
    /\ ValidateQuery = <<>>
    /\ InsertQueries = <<>>
    /\ VegType = Unbound
    /\ Coll = Unbound
    /\ i = 0
    /\ SqlFile = <<>>
    /\ trimmed = <<>>
    /\ messages = <<>>
    /\ found = None
    /\ failures = 0
    /\ now = Instants[1]
    /\ SqlFilePath = None
    /\ FieldNames = <<>>
    /\ cursor = <<>>
    /\ DList = <<>>
    /\ FeatureType = ""
    /\ TargetFeatures = None
    /\ JoinFeatures = None
    /\ OutputFeatureClass = None

Next ==
    \/ SecchiBegin
    \/ SecchiRow
    \/ SecchiEnd
    \/ DepthBegin
    \/ DepthRow
    \/ DepthEnd
    \/ LoonBegin
    \/ LoonRow
    \/ LoonEnd
    \/ WaterSampleBegin
    \/ WaterSampleRow
    \/ WaterSampleEnd
    \/ MonumentBegin
    \/ MonumentRow
    \/ MonumentEnd
    \/ ContinuousBegin
    \/ ContinuousRow
    \/ ContinuousEnd
    \/ FindDuplicatePrimaryKeys

Spec == Init /\ [][Next]_vars

\* The calls of ExportContinuousJoined alone
InitContinuous == Init /\ export = "ExportContinuousJoined"

NextContinuous ==
    \/ ContinuousBegin
    \/ ContinuousRow
    \/ ContinuousEnd

SpecContinuous == InitContinuous /\ [][NextContinuous]_vars

(***************************************************************************)
(* A script that calls one export after another                            *)
(***************************************************************************)
\* The most failed calls the model counts.
MaxFailures == 1

\* The records GetFeatureClassRows returns to an export
RowsOf(f) ==
    CASE f = "ExportSecchiJoined" -> SecchiRows
      [] f = "ExportDepthJoined" -> DepthRows
      [] f = "ExportLoonsJoined" -> LoonRows
      [] f = "ExportWaterSampleJoined" -> WaterSampleRows
      [] f = "ExportMonumentJoined" -> MonumentRows
      [] f = "ExportContinuousJoined" -> ContinuousRows

\* The script goes on to its next statement once a call has returned: it sets
\* arcpy.env.workspace and calls an export or a duplicate finder, whose locals
\* are new.  The clock has moved on.  A call of ExportContinuousJoined that
\* follows another is given a new DeployedCSV or the object of the call before.
NextCall ==
    /\ pc = "returned"
    /\ LET failed == \E k \in 1..Len(messages) : messages[k][1] = "Error in function "
       IN  /\ failed => failures < MaxFailures
           /\ failures' = IF failed THEN failures + 1 ELSE failures
    /\ pc' = "call"
    /\ export' \in Exports \cup Finders
    /\ workspace' \in Workspaces
    /\ args' \in (IF export' = "ExportContinuousJoined"
                  THEN ContinuousArgs \cup (IF export = export' THEN {args} ELSE {})
                  ELSE {NoArgs})
    /\ now' \in Later(now)
    /\ SqlFilePath' = None
    /\ UNCHANGED <<transforming, reading>>
    /\ mapDeployment' = [k \in {} |-> <<>>]
    /\ rows' = <<>>
    /\ Locals(<<>>, <<>>, <<>>, <<>>)
    /\ SqlFile' = <<>>
    /\ trimmed' = <<>>
    /\ messages' = <<>>
    /\ found' = None

\* open(SqlFilePath, 'a') raises OSError: the directory of the geodatabase is
\* not writable.  The assertions on the arguments and on the workspace stand
\* before it.
OpenFails ==
    /\ pc = "call" /\ export \in Exports
    /\ workspace # None
    /\ export = "ExportContinuousJoined" =>
         \/ args.ContinuousType = "DEPLOYMENT_INSERT" /\ args.DeployedCSV = None
         \/ /\ args.ContinuousType \in {"DEPLOYMENT_UPDATE", "RETRIEVAL_UPDATE"}
            /\ args.DeployedCSV # None /\ args.DeployedCSV.t = "DictReader"
    /\ Raise(export, "OSError")
    /\ mapDeployment' = IF export = "ExportContinuousJoined" /\ args.DeployedCSV # None
                        THEN CSVDictToKeyedDict(Unread(args.DeployedCSV))
                        ELSE mapDeployment
    /\ args' = IF export = "ExportContinuousJoined" /\ args.DeployedCSV # None
               THEN Exhausted(args) ELSE args
    /\ UNCHANGED <<transforming, reading, now, SqlFilePath, failures, found, export, workspace, rows, EventExistsQuery,
                   RecordExistsQuery, ValidateQuery, InsertQueries, VegType, Coll, i, SqlFile,
                   trimmed>>

\* GetFeatureClassRows raises: arcpy.ListFields or arcpy.da.SearchCursor cannot
\* read the feature class.
ReadFails ==
    /\ pc = "loop" /\ export \in Exports
    /\ rows = <<>>
    /\ Raise(export, "ExecuteError")
    /\ UNCHANGED <<transforming, reading, now, SqlFilePath, failures, found, export, workspace, args, mapDeployment, rows, EventExistsQuery,
                   RecordExistsQuery, ValidateQuery, InsertQueries, VegType, Coll, i, SqlFile,
                   trimmed>>

\* The feature class has no field of a name the export reads: Row[name] raises
\* KeyError at the first record.
FieldIsMissing ==
    /\ pc = "loop" /\ export \in Exports
    /\ rows = <<>>
    /\ \E Row \in RowsOf(export) : rows' = <<Row>>
    /\ Raise(export, "KeyError")
    /\ UNCHANGED <<transforming, reading, now, SqlFilePath, failures, found, export, workspace, args, mapDeployment, EventExistsQuery,
                   RecordExistsQuery, ValidateQuery, InsertQueries, VegType, Coll, i, SqlFile,
                   trimmed>>

NextInScript ==
    \/ Next
    \/ NextCall
    \/ OpenFails
    \/ ReadFails
    \/ FieldIsMissing

SpecScript == Init /\ [][NextInScript]_vars

(***************************************************************************)
(* TrimbleUtility.GetFeatureClassRows                                      *)
(***************************************************************************)
\* The field names arcpy.ListFields gives: one or two names, no name twice
FieldNameLists ==
    {<<"LakeNum">>, <<"Depth_in_meters">>, <<"LakeNum", "Depth_in_meters">>,
     <<"Depth_in_meters", "LakeNum">>}
\* The values of a row of the cursor
FieldValues == {PyStr(<<"P12">>), PyNum(234, 2), None}
\* The feature classes of the field names names: at most MaxRows rows, each of
\* one value per name
CursorsOf(names) ==
    UNION {[1..n -> [1..Len(names) -> FieldValues]] : n \in 0..MaxRows}

\* A zip that pairs a name with the value after its own
ZipShifted(a, b) ==
    [k \in 1..(IF Len(a) < Len(b) THEN Len(a) ELSE Len(b)) |-> <<a[k], b[(k % Len(b)) + 1]>>]
\* zip(a, b): the pairs, as many as the shorter of the two has
Zip(a, b) == [k \in 1..(IF Len(a) < Len(b) THEN Len(a) ELSE Len(b)) |-> <<a[k], b[k]>>]
\* d = {}; for t in z: d[t[FIELD_NAME]] = t[FIELD_VALUE]
RECURSIVE DictOfPairs(_)
DictOfPairs(z) ==
    IF z = <<>> THEN [k \in {} |-> None]
    ELSE LET t == z[Len(z)]
         IN  (t[1] :> t[2]) @@ DictOfPairs(SubSeq(z, 1, Len(z) - 1))

InitRows ==
    /\ pc = "GetFeatureClassRows"
    /\ export = "GetFeatureClassRows"
    /\ workspace = PyStr(<<"C:/fake_dir/fake.gdb">>)
    /\ args = NoArgs
    /\ mapDeployment = [k \in {} |-> <<>>]
    /\ rows = <<>>
    /\ EventExistsQuery = <<>>
    /\ RecordExistsQuery = <<>>
    /\ ValidateQuery = <<>>
    /\ InsertQueries = <<>>
    /\ VegType = Unbound
    /\ Coll = Unbound
    /\ i = 0
    /\ SqlFile = <<>>
    /\ trimmed = <<>>
    /\ messages = <<>>
    /\ found = None
    /\ failures = 0
    /\ now = Instants[1]
    /\ SqlFilePath = None
    /\ FieldNames \in FieldNameLists
    /\ cursor \in CursorsOf(FieldNames)
    /\ DList = <<>>
    /\ FeatureType = ""
    /\ TargetFeatures = None
    /\ JoinFeatures = None
    /\ OutputFeatureClass = None

\* One turn of for Row in arcpy.da.SearchCursor(FeatureClassName, FieldNames)
GetFeatureClassRowsRow ==
    /\ pc = "GetFeatureClassRows"
    /\ Len(DList) < Len(cursor)
    /\ LET Row == cursor[Len(DList) + 1]
           z == Zip(FieldNames, Row)
       IN  DList' = Append(DList, DictOfPairs(z))
    /\ UNCHANGED <<pc, export, workspace, args, mapDeployment, rows, EventExistsQuery,
                   RecordExistsQuery, ValidateQuery, InsertQueries, VegType, Coll, i, SqlFile,
                   trimmed, messages, found, failures, now, SqlFilePath, FieldNames, cursor,
                   transforming>>

\* return DList
GetFeatureClassRowsReturn ==
    /\ pc = "GetFeatureClassRows"
    /\ Len(DList) = Len(cursor)
    /\ pc' = "returned"
    /\ UNCHANGED <<export, workspace, args, mapDeployment, rows, EventExistsQuery,
                   RecordExistsQuery, ValidateQuery, InsertQueries, VegType, Coll, i, SqlFile,
                   trimmed, messages, found, failures, now, SqlFilePath, reading, transforming>>

NextRows ==
    \/ GetFeatureClassRowsRow
    \/ GetFeatureClassRowsReturn

SpecRows == InitRows /\ [][NextRows]_vars

(***************************************************************************)
(* TableUtility.TransformTable                                             *)
(***************************************************************************)
\* class Feature
Features == {"WATER_SAMPLE", "DEPTH", "SECCHI", "LOON", "DEPLOYMENT", "RETRIEVAL", "MONUMENT"}

\* A feature class, as the names of its fields
FeatureClass(fields) == [t |-> "fc", fields |-> fields]

\* GetKeptFieldsFromPathfinder(FeatureType): KeepFields
GetKeptFieldsFromPathfinder(ft) ==
    CASE ft = "WATER_SAMPLE" ->
           {"Depth_m", "WaterSamp", "SampleNum", "SampCom",
            "Horiz_Prec", "Vert_Prec", "Corr_Type", "GNSS_Heigh", "Rcvr_Type", "Max_PDOP",
            "Max_HDOP", "LakeNum", "Datafile", "GPS_Date", "GPS_Time"}
      [] ft = "DEPTH" ->
           {"Depth_m", "DepthCom",
            "Horiz_Prec", "Vert_Prec", "Corr_Type", "GNSS_Heigh", "Rcvr_Type", "Max_PDOP",
            "Max_HDOP", "LakeNum", "Datafile", "GPS_Date", "GPS_Time"}
      [] ft = "SECCHI" ->
           {"Depth_m", "SecchiDept", "OnBottom", "SeccCom",
            "Horiz_Prec", "Vert_Prec", "Corr_Type", "GNSS_Heigh", "Rcvr_Type", "Max_PDOP",
            "Max_HDOP", "LakeNum", "Datafile", "GPS_Date", "GPS_Time"}
      [] ft = "LOON" ->
           {"Species", "NumAdults", "NumYoung", "OnWater", "Identifica", "Comments",
            "Horiz_Prec", "Vert_Prec", "Corr_Type", "GNSS_Heigh", "Rcvr_Type", "Max_PDOP",
            "Max_HDOP", "LakeNum", "Datafile", "GPS_Date", "GPS_Time"}
      [] ft = "DEPLOYMENT" ->
           {"Depth_m", "DeployType", "DepCom",
            "Horiz_Prec", "Vert_Prec", "Corr_Type", "GNSS_Heigh", "Rcvr_Type", "Max_PDOP",
            "Max_HDOP", "LakeNum", "Datafile", "GPS_Date", "GPS_Time"}
      [] ft = "RETRIEVAL" ->
           {"Depth_m", "DeployType", "RetCom",
            "Horiz_Prec", "Vert_Prec", "Corr_Type", "GNSS_Heigh", "Rcvr_Type", "Max_PDOP",
            "Max_HDOP", "LakeNum", "Datafile", "GPS_Date", "GPS_Time"}
      [] ft = "MONUMENT" ->
           {"Horiz_Prec", "Vert_Prec", "Corr_Type", "GNSS_Heigh", "Rcvr_Type", "Max_PDOP",
            "Max_HDOP", "LakeNum", "Datafile", "GPS_Date", "GPS_Time"}

\* RemoveFields(FieldMappings, KeepFields): the fields that are left
RemoveFields(FieldMappings, KeepFields) == {f \in FieldMappings : f \in KeepFields}

\* A renaming that alters no field
AlterNoField(ft, name) == name
\* AlterFieldNamesFromPathFinder(FeatureClassName, FeatureType): the name the
\* field name has after the loop over arcpy.ListFields
AlterFieldNamesFromPathFinder(ft, name) ==
    CASE ft = "WATER_SAMPLE" ->
           (CASE name = "SampleNum" -> "Sample_Number__A__B__C_"
              [] name = "Depth_m" -> "Depth_in_meters"
              [] name = "SampCom" -> "Comment"
              [] name = "WaterSamp" -> "Water_Bottles_Collected_"
              [] OTHER -> name)
      [] ft = "DEPTH" ->
           (CASE name = "Depth_m" -> "Depth_in_meters"
              [] name = "DepthCom" -> "Comment"
              [] OTHER -> name)
      [] ft = "SECCHI" ->
           (CASE name = "Depth_m" -> "Lake_Depth_in_meters"
              [] name = "SecchiDept" -> "Secchi_Depth_in_meters"
              [] name = "SeccCom" -> "Comments"
              [] OTHER -> name)
      [] ft = "LOON" ->
           (CASE name = "Species" -> "Loon_Species"
              [] name = "NumAdults" -> "a___of_Adults"
              [] name = "NumYoung" -> "a___of_Young"
              [] name = "OnWater" -> "On_Water_"
              [] name = "Identifica" -> "Identification_Method"
              [] name = "Comments" -> "Loon_Comments"
              [] OTHER -> name)
      [] ft = "DEPLOYMENT" ->
           (CASE name = "Depth_m" -> "Lake_Depth_in_meters"
              [] name = "DeployType" -> "Deployment_Type"
              [] name = "DepCom" -> "Comments"
              [] OTHER -> name)
      [] ft = "RETRIEVAL" ->
           (CASE name = "Depth_m" -> "Lake_Depth_in_meters"
              [] name = "DeployType" -> "Deployment_Type"
              [] name = "RetCom" -> "Comments"
              [] OTHER -> name)
      [] OTHER -> name

\* The fields arcpy.SpatialJoin_analysis adds to its output
SpatialJoinFields == {"Join_Count", "TARGET_FID"}

\* Row['...']: the fields the export of the feature type reads from a record
FieldsRead(ft) ==
    CASE ft = "WATER_SAMPLE" ->
           {"CreationDateTimeLocal", "LakeNum", "Sample_Number__A__B__C_", "Depth_in_meters",
            "Comment", "Water_Bottles_Collected_"}
      [] ft = "DEPTH" ->
           {"CreationDateTimeLocal", "LakeNum", "YCurrentMapCS", "XCurrentMapCS",
            "Depth_in_meters", "Comment", "Datafile"}
      [] ft = "SECCHI" ->
           {"CreationDateTimeLocal", "LakeNum", "Secchi_Depth_in_meters", "OnBottom", "Comments"}
      [] ft = "LOON" ->
           {"CreationDateTimeLocal", "LakeNum", "Loon_Species", "a___of_Adults", "a___of_Young",
            "On_Water_", "Identification_Method", "YCurrentMapCS", "XCurrentMapCS",
            "Loon_Comments"}
      [] ft = "DEPLOYMENT" ->
           {"CreationDateTimeLocal", "LakeNum", "Deployment_Type", "YCurrentMapCS",
            "XCurrentMapCS", "Comments"}
      [] ft = "RETRIEVAL" ->
           {"CreationDateTimeLocal", "LakeNum", "YCurrentMapCS", "XCurrentMapCS", "Comments"}
      [] ft = "MONUMENT" ->
           {"CreationDateTimeLocal", "LakeNum", "YCurrentMapCS", "XCurrentMapCS",
            "FeatureHeight", "MonType", "Location", "Comment", "AccessType", "DeviceType",
            "CorrStatus", "HorizEstAcc", "VertEstAcc"}

\* The feature classes Pathfinder gives for a feature type: the fields of its
\* data dictionary and of the positions, which the keep list names, with or
\* without other fields; LakeNum is a field of the monuments. None: the
\* feature class does not exist.
PathfinderOthers == {"Point_ID", "Feat_Name"}
TargetInputs(ft) ==
    {FeatureClass((GetKeptFieldsFromPathfinder(ft) \ {"LakeNum"}) \cup x) :
        x \in SUBSET PathfinderOthers} \cup {None}
MonumentOthers == {"MonType", "Location"}
JoinInputs == {FeatureClass({"LakeNum"} \cup x) : x \in SUBSET MonumentOthers}

InitTransform ==
    /\ pc = "TransformTable"
    /\ export = "TransformTable"
    /\ workspace = PyStr(<<"C:/fake_dir/fake.gdb">>)
    /\ args = NoArgs
    /\ mapDeployment = [k \in {} |-> <<>>]
    /\ rows = <<>>
    /\ EventExistsQuery = <<>>
    /\ RecordExistsQuery = <<>>
    /\ ValidateQuery = <<>>
    /\ InsertQueries = <<>>
    /\ VegType = Unbound
    /\ Coll = Unbound
    /\ i = 0
    /\ SqlFile = <<>>
    /\ trimmed = <<>>
    /\ messages = <<>>
    /\ found = None
    /\ failures = 0
    /\ now = Instants[1]
    /\ SqlFilePath = None
    /\ FieldNames = <<>>
    /\ cursor = <<>>
    /\ DList = <<>>
    /\ FeatureType \in Features
    /\ TargetFeatures \in TargetInputs(FeatureType)
    /\ JoinFeatures \in JoinInputs
    /\ OutputFeatureClass = None

\* What a call of TransformTable leaves alone
exporting == <<export, workspace, args, mapDeployment, rows, EventExistsQuery,
               RecordExistsQuery, ValidateQuery, InsertQueries, VegType, Coll, i, SqlFile,
               trimmed, messages, found, failures, now, SqlFilePath, reading>>

\* if arcpy.Exists(TargetFeatures): ... else: print(...)
TargetDoesNotExist ==
    /\ pc = "TransformTable"
    /\ TargetFeatures = None
    /\ pc' = "returned"
    /\ UNCHANGED <<exporting, transforming>>

\* CreateTableJoin: the fields of both tables, less those RemoveFields removes,
\* joined by arcpy.SpatialJoin_analysis and renamed by AlterFunction
CreateTableJoin ==
    /\ pc = "TransformTable"
    /\ TargetFeatures # None
    /\ LET FieldMappings == TargetFeatures.fields \cup JoinFeatures.fields
           KeepFields == GetKeptFieldsFromPathfinder(FeatureType)
           joined == RemoveFields(FieldMappings, KeepFields) \cup SpatialJoinFields
       IN  OutputFeatureClass' =
             FeatureClass({AlterFieldNamesFromPathFinder(FeatureType, f) : f \in joined})
    /\ pc' = "AddNewDateField"
    /\ UNCHANGED <<exporting, FeatureType, TargetFeatures, JoinFeatures>>

\* arcpy.management.AddField(TargetFeatureClassName, FieldName, ...)
AddField(fc, FieldName) == FeatureClass(fc.fields \cup {FieldName})

\* AddNewDateField(OutputFeatureClass, "CreationDateTimeLocal")
AddNewDateField ==
    /\ pc = "AddNewDateField"
    /\ OutputFeatureClass' = AddField(OutputFeatureClass, "CreationDateTimeLocal")
    /\ pc' = "AddNewDoubleField"
    /\ UNCHANGED <<exporting, FeatureType, TargetFeatures, JoinFeatures>>

\* AddNewDoubleField(OutputFeatureClass, "XCurrentMapCS"), then "YCurrentMapCS"
AddNewDoubleField ==
    /\ pc = "AddNewDoubleField"
    /\ IF "XCurrentMapCS" \notin OutputFeatureClass.fields
       THEN /\ OutputFeatureClass' = AddField(OutputFeatureClass, "XCurrentMapCS")
            /\ UNCHANGED pc
       ELSE /\ OutputFeatureClass' = AddField(OutputFeatureClass, "YCurrentMapCS")
            /\ pc' = "CombineDateAndTime"
    /\ UNCHANGED <<exporting, FeatureType, TargetFeatures, JoinFeatures>>

\* CombineDateAndTime and CalculatePointGeometry give the new fields their
\* values; no field is added, removed or renamed
CalculateFields ==
    /\ pc = "CombineDateAndTime"
    /\ pc' = "returned"
    /\ UNCHANGED <<exporting, transforming>>

\* The export of the feature type reads a record of the feature class:
\* Row[name] raises KeyError when the record has no field of that name
ExportReads ==
    /\ pc = "returned"
    /\ OutputFeatureClass # None
    /\ pc' = IF FieldsRead(FeatureType) \subseteq OutputFeatureClass.fields
             THEN "read" ELSE "KeyError"
    /\ UNCHANGED <<exporting, transforming>>

NextTransform ==
    \/ TargetDoesNotExist
    \/ CreateTableJoin
    \/ AddNewDateField
    \/ AddNewDoubleField
    \/ CalculateFields
    \/ ExportReads

SpecTransform == InitTransform /\ [][NextTransform]_vars

\* Every slice by a character count removed one-character tokens only.
TrimIsExact == \A k \in 1..Len(trimmed) : trimmed[k] \in Chars

(***************************************************************************)
(* Reading the text a run has built or written                             *)
(***************************************************************************)
\* The run ended in its except branch
Failed == \E k \in 1..Len(messages) : messages[k][1] = "Error in function "
\* The export f ran to its end and wrote its document
Completed(f) == export = f /\ pc = "returned" /\ ~Failed
\* The records read so far that carry a creation date
Survivors == SelectSeq(rows, LAMBDA r : r.CreationDateTimeLocal # None)

\* The places of a token, the n-th of a set of places, the first place from p on
Idx(text, tok) == {k \in 1..Len(text) : text[k] = tok}
Nth(S, n) == CHOOSE x \in S : Cardinality({y \in S : y <= x}) = n
First(text, p, tok) ==
    LET S == {k \in p..Len(text) : text[k] = tok}
    IN  IF S = {} THEN 0 ELSE CHOOSE x \in S : \A y \in S : x <= y
\* sub stands in text at place p
At(text, p, sub) ==
    /\ p >= 1 /\ p + Len(sub) - 1 <= Len(text)
    /\ SubSeq(text, p, p + Len(sub) - 1) = sub
\* the text from place p up to, not including, the next token tok
Until(text, p, tok) == SubSeq(text, p, First(text, p, tok) - 1)
\* the text from the n-th token head up to and including the next token tail
Statement(text, head, n, tail) ==
    LET p == Nth(Idx(text, head), n)
    IN  SubSeq(text, p, First(text, p, tail))

Guarded == {"ExportSecchiJoined", "ExportDepthJoined", "ExportLoonsJoined",
            "ExportWaterSampleJoined"}

(***************************************************************************)
(* C1                                                                      *)
(***************************************************************************)
\* C1: in every export, the step that reads a record whose CreationDateTimeLocal
\* is null leaves the guard, the preview and the statements as they are, writes
\* nothing, reports nothing, and leaves the run in its loop, so that the
\* remaining records are still read.
C1_NullDateIsSkipped ==
    [][(/\ export \in Exports /\ pc = "loop"
        /\ rows' # rows
        /\ rows'[Len(rows')].CreationDateTimeLocal = None)
       => (/\ pc' = "loop"
           /\ UNCHANGED <<EventExistsQuery, RecordExistsQuery, ValidateQuery,
                          InsertQueries, SqlFile, messages>>)]_vars

(***************************************************************************)
(* C2                                                                      *)
(***************************************************************************)
C2_Exports == {"ExportDepthJoined", "ExportLoonsJoined", "ExportWaterSampleJoined"}
\* The token an INSERT begins with, and where the site name stands after it
C2_Insert(f) ==
    CASE f = "ExportDepthJoined" ->
           "INSERT INTO tblPondDepths(PONDNAME,SAMPLEDATE,GPS_TIME,LATITUDE,LONGITUDE,DEPTH,COMMENTS_DEPTHS,DATAFILE,SOURCE) VALUES("
      [] f = "ExportLoonsJoined" -> "INSERT INTO "
      [] f = "ExportWaterSampleJoined" ->
           "INSERT INTO tblWaterSamples([PONDNAME],[SAMPLEDATE],[SAMPLENUMBER],[SAMPLETIME],[SAMPLEDEPTH],[DEPTH],[O18_COLL],[SI_DOC_COLL],[IONS_COLL],[TN_TP_COLL],[CHLA_COLL],[Notes]) VALUES('"
C2_KeyAt(f, p) ==
    CASE f = "ExportDepthJoined" -> p + 2
      [] f = "ExportLoonsJoined" -> p + 4
      [] f = "ExportWaterSampleJoined" -> p + 1
\* The guard clause of a site and a date
C2_Guard(f, PondName, SampleDate) ==
    <<IF f = "ExportLoonsJoined"
      THEN "    EXISTS  (SELECT PONDNAME FROM tblEvents WHERE Pondname='"
      ELSE " EXISTS  (SELECT PONDNAME FROM tblEvents WHERE Pondname='">>
    \o PondName \o <<"' And SampleDate = '">> \o SampleDate \o <<"'", ")">>
\* The guard clause of the INSERT at place p of text
C2_GuardOf(f, text, p) ==
    LET PondName == Until(text, C2_KeyAt(f, p), "','")
        SampleDate == Until(text, C2_KeyAt(f, p) + Len(PondName) + 1, "','")
    IN  C2_Guard(f, PondName, SampleDate)

\* C2: in the Depth, Water Sample and Loon exports, at every moment of a run,
\* every INSERT in InsertQueries has the EXISTS clause on tblEvents of its own
\* PondName and SampleDate in EventExistsQuery, and every INSERT of the written
\* document stands after such a clause, which stands under an IF.
C2_InsertHasGuard ==
    export \in C2_Exports =>
        /\ \A p \in Idx(InsertQueries, C2_Insert(export)) :
             LET g == C2_GuardOf(export, InsertQueries, p)
             IN  \E q \in Idx(EventExistsQuery, g[1]) : At(EventExistsQuery, q, g)
        /\ \A p \in Idx(SqlFile, C2_Insert(export)) :
             LET g == C2_GuardOf(export, SqlFile, p)
             IN  \E q \in Idx(SqlFile, g[1]) :
                    /\ q < p
                    /\ At(SqlFile, q, g)
                    /\ \E j \in Idx(SqlFile, "I") : j < q /\ At(SqlFile, j, <<"I", "F", "\n">>)

C2_Witness ==
    /\ Completed("ExportWaterSampleJoined")
    /\ Cardinality(Idx(SqlFile, C2_Insert(export))) = 2
    /\ Cardinality(Idx(SqlFile, " EXISTS  (SELECT PONDNAME FROM tblEvents WHERE Pondname='")) = 2

(***************************************************************************)
(* C3                                                                      *)
(***************************************************************************)
C3_And == <<" ", "A", "n", "d", " ", "\n">>
C3_Or == <<" ", "O", "r">>
\* The lists of an export: the token an entry begins with, and what joins entries
C3_Lists(f) ==
    CASE f = "ExportSecchiJoined" ->
           {<<"EXISTS (SELECT PondName FROM tblPonds WHERE Pondname = '", C3_And>>,
            <<"-- (Pondname = '", C3_Or>>}
      [] f = "ExportLoonsJoined" ->
           {<<"    EXISTS  (SELECT PONDNAME FROM tblEvents WHERE Pondname='", C3_And>>,
            <<" NOT EXISTS (SELECT * FROM tblLoons WHERE Pondname='", C3_And>>,
            <<"   -- (PondName='", C3_Or>>}
      [] OTHER ->
           {<<" EXISTS  (SELECT PONDNAME FROM tblEvents WHERE Pondname='", C3_And>>,
            <<"   -- (PondName='", C3_Or>>}
\* In text the list has n entries, each whole up to its closing quote and
\* parenthesis, each but the last followed by the join, the last by none.
C3_ListIsJoined(text, head, join, n) ==
    LET P == Idx(text, head)
    IN  /\ Cardinality(P) = n
        /\ \A p \in P :
             LET a == First(text, p, "'")
             IN  /\ At(text, a, <<"'", ")">>)
                 /\ IF \E q \in P : q > p
                    THEN At(text, a + 2, join)
                    ELSE \A j \in (a + 2)..(a + 3) :
                            j <= Len(text) => text[j] \notin {"A", "n", "d", "O", "r"}

\* C3: a Secchi, Depth, Loon or Water Sample run that ends with N >= 1 records
\* carrying a date has written each guard list with N clauses joined by N - 1
\* And, and each preview or validation list with N entries joined by N - 1 Or;
\* nothing follows the last entry, no part of which was cut: what the cuts
\* removed are characters of the join alone.
C3_ListsAreTerminated ==
    \A f \in Guarded :
        (Completed(f) /\ Len(Survivors) >= 1) =>
            /\ \A l \in C3_Lists(f) : C3_ListIsJoined(SqlFile, l[1], l[2], Len(Survivors))
            /\ \A k \in 1..Len(trimmed) : trimmed[k] \in {" ", "\n", "A", "n", "d", "O", "r"}

C3_Witness ==
    /\ Completed("ExportLoonsJoined")
    /\ Len(Survivors) = MaxRows
    /\ trimmed # <<>>

(***************************************************************************)
(* C4                                                                      *)
(***************************************************************************)
\* The tokens that open the block under a guard
C4_Begin == {"\nBEGIN\n", "\n    BEGIN\n    -- Insert the records\n",
             "\n    BEGIN\n    -- Insert the records\n\n", "    BEGIN\n"}

\* C4: a Secchi, Depth, Loon or Water Sample run that ends with no record
\* carrying a date has cut nothing from any list, and every BEGIN of a guarded
\* block in its document stands after an IF.
C4_NoRecordNoGuardBlock ==
    \A f \in Guarded :
        (Completed(f) /\ Survivors = <<>>) =>
            /\ trimmed = <<>>
            /\ \A p \in 1..Len(SqlFile) :
                 SqlFile[p] \in C4_Begin =>
                    \E q \in 1..p : SqlFile[q] = "IF " \/ At(SqlFile, q, <<"I", "F">>)

(***************************************************************************)
(* C5                                                                      *)
(***************************************************************************)
\* A date as the text YYYY-MM-DD
DateText(dt) ==
    NatDigits(dt.Y) \o <<"-", ToString(dt.M \div 10), ToString(dt.M % 10),
                         "-", ToString(dt.D \div 10), ToString(dt.D % 10)>>
\* c without the white space at its ends
Trimmed(c) ==
    LET K == {k \in 1..Len(c) : c[k] \notin Whitespace}
    IN  IF K = {} THEN <<>>
        ELSE SubSeq(c, CHOOSE a \in K : \A b \in K : a <= b, CHOOSE a \in K : \A b \in K : a >= b)
\* The decimal texts, with one decimal place, that no other is nearer to x >= 0
OneDecimal(x) ==
    LET unit == Pow10(x.d - 1)
    IN  {NatDigits(t \div 10) \o <<".", ToString(t % 10)>> :
            t \in {u \in 0..(x.v \div unit + 1) : 2 * Abs(x.v - u * unit) <= unit}}

C5_Update == "UPDATE tblEvents SET SECCHIDEPTH = "
\* The UPDATE of the record r, its depth written as lit
C5_UpdateOf(r, lit) ==
    <<C5_Update>> \o lit
    \o <<", SECCHIONBOTTOM = ", IF r.OnBottom = PyStr(<<"Yes">>) THEN "1" ELSE "0", ", ">>
    \o (IF Trimmed(r.Comments.v) = <<>> THEN <<"SECCHINOTES = NULL">>
        ELSE <<"SECCHINOTES = '">> \o Trimmed(r.Comments.v) \o <<"'">>)
    \o <<" WHERE Pondname = '">> \o r.LakeNum.v \o <<"' And SampleDate = '">>
    \o DateText(r.CreationDateTimeLocal) \o <<"'\n\n">>

\* C5: the document of a Secchi run that ran to its end holds, for the n-th
\* record with a creation date, one UPDATE of tblEvents, the n-th, not written
\* as a comment, that sets SECCHIDEPTH to the depth rounded to one decimal place
\* (NULL for a null depth), SECCHIONBOTTOM to 1 for OnBottom 'Yes' and to 0
\* otherwise, SECCHINOTES to NULL for blank Comments and to the quoted trimmed
\* text otherwise, WHERE Pondname is LakeNum And SampleDate is the date, without
\* the time, of the creation timestamp; it holds no other such UPDATE.  (A run
\* that ends in its except branch writes no document.)
C5_SecchiUpdate ==
    Completed("ExportSecchiJoined") =>
        LET P == Idx(SqlFile, C5_Update)
        IN  /\ Cardinality(P) = Len(Survivors)
            /\ \A n \in 1..Len(Survivors) :
                 LET r == Survivors[n]
                     p == Nth(P, n)
                 IN  /\ SqlFile[p - 1] \notin {"-- ", "               -- "}
                     /\ \E lit \in (IF r.Secchi_Depth_in_meters = None THEN {<<"NULL">>}
                                    ELSE OneDecimal(r.Secchi_Depth_in_meters)) :
                            At(SqlFile, p, C5_UpdateOf(r, lit))

C5_Witness ==
    /\ Completed("ExportSecchiJoined")
    /\ \E a, b \in 1..Len(Survivors) :
         /\ Survivors[a].Secchi_Depth_in_meters = None
         /\ Trimmed(Survivors[a].Comments.v) = <<>>
         /\ Survivors[b].Secchi_Depth_in_meters = PyNum(238, 2)
         /\ Survivors[b].OnBottom = PyStr(<<"Yes">>)
         /\ Trimmed(Survivors[b].Comments.v) # <<>>

(***************************************************************************)
(* C6                                                                      *)
(***************************************************************************)
C6_Insert == "INSERT INTO tblEvents(PONDNAME,SAMPLEDATE,SECCHIDEPTH,SECCHIONBOTTOM,SECCHINOTES) VALUES('"
C6_Select == "SELECT  PONDNAME, SAMPLEDATE, SECCHIDEPTH, SECCHIONBOTTOM, SECCHINOTES FROM tblEvents WHERE Pondname = '"
C6_Comment == "               -- "
\* In text: every INSERT INTO tblEvents is a comment; every UPDATE stands
\* directly under an IF EXISTS that selects its own site and date from
\* tblEvents; the ELSE of that IF is a PRINT of that site and date and nothing
\* more, and nothing between the UPDATE and the ELSE is a statement.
C6_UpdateOrWarn(text) ==
    /\ \A p \in Idx(text, C6_Insert) : p > 1 /\ text[p - 1] = C6_Comment
    /\ \A p \in Idx(text, C5_Update) :
         LET e == First(text, p, "'\n\n")
             w == First(text, p, " WHERE Pondname = '")
             PondName == Until(text, w + 1, "' And SampleDate = '")
             SampleDate == SubSeq(text, w + Len(PondName) + 2, e - 1)
             gate == <<"       IF EXISTS (", C6_Select>> \o PondName
                     \o <<"' And SampleDate = '">> \o SampleDate
                     \o <<"'", ")\n", "               -- The event exists, update it.\n",
                          "               ">>
             warn == <<"       ELSE\n", "           ",
                       "PRINT 'The event for this record does not exist. PondName:">>
                     \o PondName \o <<" SampleDate: ">> \o SampleDate \o <<"'\n\n">>
             q == First(text, p, "       ELSE\n")
         IN  /\ At(text, p - Len(gate), gate)
             /\ At(text, q, warn)
             /\ q + Len(warn) <= Len(text) =>
                    text[q + Len(warn)] \in {"       -- Ensure the Event for these data edits exists.\n",
                                             "END\n"}
             /\ \A j \in (e + 1)..(q - 1) :
                    text[j] \in {C6_Insert, C6_Select, C5_Update} => text[j - 1] = C6_Comment

\* C6: in a Secchi run, what the records have appended and what the run has
\* written never hold an INSERT INTO tblEvents outside a comment; each UPDATE is
\* directly under the IF EXISTS of its own PondName and SampleDate, whose ELSE
\* only prints a warning with that PondName and SampleDate.
C6_NeverInsertsEvent ==
    export = "ExportSecchiJoined" => C6_UpdateOrWarn(InsertQueries) /\ C6_UpdateOrWarn(SqlFile)

C6_Witness ==
    /\ Completed("ExportSecchiJoined")
    /\ Cardinality(Idx(SqlFile, C6_Insert)) = 2
    /\ Cardinality(Idx(SqlFile, "P12")) > 0 /\ Cardinality(Idx(SqlFile, "L7")) > 0

(***************************************************************************)
(* C7                                                                      *)
(***************************************************************************)
C7_EventExists == "    EXISTS  (SELECT PONDNAME FROM tblEvents WHERE Pondname='"
C7_NoLoon == " NOT EXISTS (SELECT * FROM tblLoons WHERE Pondname='"
C7_EventMissing == "ELSE\n    PRINT 'One or more parent Event records (tblEvents) related to the record you are trying to insert does not exist.'\n\n"
C7_LoonExists == "            PRINT 'One or more records exist already. Uncomment and use the validation query above to help determine which "
\* The parts of the two blocks, from the outside in and back
C7_Frame == <<"    BEGIN\n", "            BEGIN\n", "            END\n", "        ELSE\n",
              C7_LoonExists, "    END\n", C7_EventMissing>>
\* The n-th clause that begins with head is the clause of the record r
C7_ClauseOf(head, n, r) ==
    At(SqlFile, Nth(Idx(SqlFile, head), n),
       <<head>> \o r.LakeNum.v \o <<"' And SampleDate = '">>
       \o DateText(r.CreationDateTimeLocal) \o <<"'", ")">>)

\* C7: the document of a Loon run that ran to its end with N records carrying
\* a date has N EXISTS clauses on tblEvents and N NOT EXISTS clauses on tblLoons,
\* the n-th of each with the PondName and SampleDate of the n-th such record,
\* each list under its own IF; the tblEvents clauses stand before the outer
\* BEGIN, the tblLoons clauses between the outer and the inner BEGIN, every
\* INSERT between the inner BEGIN and the inner END; then come the inner ELSE
\* with the 'records exist already' PRINT, the outer END, and the outer ELSE
\* with the other, 'parent Event records' PRINT.
C7_NestedGuards ==
    Completed("ExportLoonsJoined") =>
        LET N == Len(Survivors)
            at(k) == First(SqlFile, 1, C7_Frame[k])
            E == Idx(SqlFile, C7_EventExists)
            R == Idx(SqlFile, C7_NoLoon)
            I == Idx(SqlFile, "INSERT INTO ")
        IN  /\ Cardinality(E) = N /\ Cardinality(R) = N /\ Cardinality(I) = N
            /\ \A n \in 1..N : /\ C7_ClauseOf(C7_EventExists, n, Survivors[n])
                               /\ C7_ClauseOf(C7_NoLoon, n, Survivors[n])
            /\ N >= 1 => /\ At(SqlFile, Nth(E, 1) - 3, <<"I", "F", "\n">>)
                         /\ At(SqlFile, Nth(R, 1) - 3, <<"I", "F", " ">>)
            /\ \A k \in 1..Len(C7_Frame) : Cardinality(Idx(SqlFile, C7_Frame[k])) = 1
            /\ \A k \in 1..(Len(C7_Frame) - 1) : at(k) < at(k + 1)
            /\ \A p \in E : p < at(1)
            /\ \A p \in R : at(1) < p /\ p < at(2)
            /\ \A p \in I : at(2) < p /\ p < at(3)
            /\ at(5) = at(4) + 1
            /\ C7_LoonExists # C7_EventMissing

C7_Witness ==
    /\ Completed("ExportLoonsJoined")
    /\ Len(Survivors) = 2
    /\ Survivors[1].LakeNum # Survivors[2].LakeNum

(***************************************************************************)
(* C8                                                                      *)
(***************************************************************************)
\* The tokens of the n-th statement of text that begins with head and ends with tail
Tokens(text, head, n, tail) ==
    LET s == Statement(text, head, n, tail) IN {s[k] : k \in 1..Len(s)}

\* C8: in a Loon run that has not failed, the INSERT of the n-th record with a
\* creation date carries the VEG_TYPE 'WATER' when that record's On_Water_ is
\* 'Yes', and the VEG_TYPE NULL when its On_Water_ is null.
C8_VegTypeOfOnWater ==
    (export = "ExportLoonsJoined" /\ ~Failed) =>
        \A n \in 1..Cardinality(Idx(InsertQueries, "INSERT INTO ")) :
            LET r == Survivors[n]
                T == Tokens(InsertQueries, "INSERT INTO ", n, "');\n")
            IN  /\ r.On_Water_ = PyStr(<<"Yes">>) => ("WATER" \in T /\ ",NULL," \notin T)
                /\ r.On_Water_ = None => (",NULL," \in T /\ "WATER" \notin T)

(***************************************************************************)
(* C9                                                                      *)
(***************************************************************************)
C9_Insert == "INSERT INTO tblWaterSamples([PONDNAME],[SAMPLEDATE],[SAMPLENUMBER],[SAMPLETIME],[SAMPLEDEPTH],[DEPTH],[O18_COLL],[SI_DOC_COLL],[IONS_COLL],[TN_TP_COLL],[CHLA_COLL],[Notes]) VALUES('"
\* The Sample Number of the record r is text
C9_HasNumber(r) == r.Sample_Number__A__B__C_.t = "str"
C9_Blank(r) == Trimmed(r.Sample_Number__A__B__C_.v) = <<>>
\* The Sample Number the claim gives the record r
C9_SampleNumber(r) == IF C9_Blank(r) THEN <<"A">> ELSE Upper(r.Sample_Number__A__B__C_.v)

\* In a Water Sample run that has not failed, the INSERT and the validation
\* entry of the n-th record with a creation date carry 'A' for a blank Sample
\* Number and the upper-cased Sample Number otherwise.
C9_InExport ==
    (export = "ExportWaterSampleJoined" /\ ~Failed) =>
        \A n \in 1..Cardinality(Idx(InsertQueries, C9_Insert)) :
            LET r == Survivors[n]
                p == Nth(Idx(InsertQueries, C9_Insert), n)
                q == First(InsertQueries, First(InsertQueries, p, "','") + 1, "','")
                v == Nth(Idx(ValidateQuery, "' and SampleNumber = '"), n)
            IN  C9_HasNumber(r) =>
                    /\ Until(InsertQueries, q + 1, "','") = C9_SampleNumber(r)
                    /\ Until(ValidateQuery, v + 1, "'") = C9_SampleNumber(r)

\* Once the duplicate finder was called on Water_Sample_Joined it has returned a
\* dictionary, in which two records with a creation date, of one site and one
\* date, both with a blank Sample Number, share the key that ends in 'A'.
C9_InFinder ==
    (export = "FindDuplicateWaterSampleKeys" /\ pc # "call") =>
        /\ pc = "returned"
        /\ found.t = "dict"
        /\ \A a, b \in 1..Len(Survivors) :
             LET r == Survivors[a]
                 s == Survivors[b]
             IN  (/\ a < b
                  /\ C9_HasNumber(r) /\ C9_Blank(r) /\ C9_HasNumber(s) /\ C9_Blank(s)
                  /\ r.LakeNum = s.LakeNum
                  /\ DateText(r.CreationDateTimeLocal) = DateText(s.CreationDateTimeLocal))
                 => Upper(r.LakeNum.v \o DateText(r.CreationDateTimeLocal) \o <<"A">>)
                        \in DOMAIN found.d

\* C9: a blank Sample Number of a Water Sample record with a creation date is
\* 'A' in the SAMPLENUMBER of its INSERT, in its validation entry and in the
\* primary key the duplicate finder computes; another Sample Number is kept,
\* upper-cased.
C9_BlankSampleNumberIsA == C9_InExport /\ C9_InFinder

(***************************************************************************)
(* C10                                                                     *)
(***************************************************************************)
\* In text, the five flags of the n-th INSERT are one value, 1 for a record r
\* whose Water_Bottles_Collected_ is 'Yes' and 0 for one whose is 'No'.
C10_FlagsOf(text, n, r) ==
    LET s == Statement(text, C9_Insert, n, ")\n")
        commas == Idx(s, ",")
        flag(j) == s[Nth(commas, j + 1) + 1]
    IN  /\ Cardinality(commas) = 6
        /\ \A j \in 2..5 : flag(j) = flag(1)
        /\ flag(1) \in {"0", "1"}
        /\ r.Water_Bottles_Collected_ = PyStr(<<"Yes">>) => flag(1) = "1"
        /\ r.Water_Bottles_Collected_ = PyStr(<<"No">>) => flag(1) = "0"

\* C10: in a Water Sample run that has not failed, in what the records have
\* appended and in what the run has written, the INSERT of the n-th record with
\* a creation date carries one value in O18_COLL, SI_DOC_COLL, IONS_COLL,
\* TN_TP_COLL and CHLA_COLL: 1 when the record's Water_Bottles_Collected_ is
\* 'Yes', 0 when it is 'No'.
C10_CollectionFlags ==
    (export = "ExportWaterSampleJoined" /\ ~Failed) =>
        /\ \A n \in 1..Cardinality(Idx(InsertQueries, C9_Insert)) :
              C10_FlagsOf(InsertQueries, n, Survivors[n])
        /\ \A n \in 1..Cardinality(Idx(SqlFile, C9_Insert)) :
              C10_FlagsOf(SqlFile, n, Survivors[n])

C10_Witness ==
    /\ Completed("ExportWaterSampleJoined")
    /\ \E a, b \in 1..Len(Survivors) :
         /\ Survivors[a].Water_Bottles_Collected_ = PyStr(<<"Yes">>)
         /\ Survivors[b].Water_Bottles_Collected_ = PyStr(<<"No">>)
    /\ Cardinality(Idx(SqlFile, C9_Insert)) = Len(Survivors)

(***************************************************************************)
(* C11                                                                     *)
(***************************************************************************)
C11_Modes == {"DEPLOYMENT_INSERT", "DEPLOYMENT_UPDATE", "RETRIEVAL_UPDATE"}
C11_Updates == {"DEPLOYMENT_UPDATE", "RETRIEVAL_UPDATE"}
\* The token a statement of the mode begins with, and the statements of a text
C11_Head == IF args.ContinuousType = "DEPLOYMENT_INSERT" THEN "INSERT INTO dbo." ELSE "UPDATE dbo."
C11_Count(text) == Cardinality(Idx(text, C11_Head))

\* A day as the number YYYYMMDD: of a creation timestamp, of a 'YYYY-MM-DD' text
C11_Digit(c) ==
    CASE c = "0" -> 0 [] c = "1" -> 1 [] c = "2" -> 2 [] c = "3" -> 3 [] c = "4" -> 4
      [] c = "5" -> 5 [] c = "6" -> 6 [] c = "7" -> 7 [] c = "8" -> 8 [] c = "9" -> 9
RECURSIVE C11_DayOfText(_)
C11_DayOfText(text) ==
    IF text = <<>> THEN 0
    ELSE LET c == text[Len(text)]
             rest == C11_DayOfText(SubSeq(text, 1, Len(text) - 1))
         IN  IF c = "-" THEN rest ELSE 10 * rest + C11_Digit(c)
C11_Day(dt) == 10000 * dt.Y + 100 * dt.M + dt.D
C11_From == C11_DayOfText(args.fromDate)
C11_To == C11_DayOfText(args.toDate)
C11_Dated(r) == r.CreationDateTimeLocal # None
C11_Inside(r) ==
    C11_From <= C11_Day(r.CreationDateTimeLocal) /\ C11_Day(r.CreationDateTimeLocal) <= C11_To
C11_OnBoundary(r) == C11_Day(r.CreationDateTimeLocal) \in {C11_From, C11_To}

\* The Site Names of the cross-reference the call was given
C11_Keys ==
    IF args.DeployedCSV = None THEN {}
    ELSE {args.DeployedCSV.rows[k].SiteName : k \in 1..Len(args.DeployedCSV.rows)}
\* A record the mode has a statement for when its date is in the range: one
\* with all its fields, in an update mode of a site of the cross-reference
C11_Eligible(r) ==
    /\ r.LakeNum.t = "str" /\ r.Comments.t = "str"
    /\ r.YCurrentMapCS.t = "num" /\ r.XCurrentMapCS.t = "num"
    /\ args.ContinuousType \in C11_Updates => r.LakeNum.v \in C11_Keys

\* C11: in each Continuous mode, the step that reads a record appends one
\* statement or none; it appends one only when the day of the record's own
\* creation timestamp d has fromDate <= d <= toDate; it appends none when d is
\* outside the range; and it appends one when d is fromDate or toDate (for a
\* record with all its fields, in an update mode of a site of the
\* cross-reference).
C11_OnlyInsideTheRange ==
    [][(export = "ExportContinuousJoined" /\ pc = "loop" /\ rows' # rows) =>
         LET r == rows'[Len(rows')]
             one == /\ C11_Count(InsertQueries') = C11_Count(InsertQueries) + 1
                    /\ Len(InsertQueries') > Len(InsertQueries)
                    /\ SubSeq(InsertQueries', 1, Len(InsertQueries)) = InsertQueries
             none == InsertQueries' = InsertQueries
         IN  /\ args.ContinuousType \in C11_Modes
             /\ one \/ none
             /\ one => (C11_Dated(r) /\ C11_Inside(r))
             /\ (C11_Dated(r) /\ ~C11_Inside(r)) => none
             /\ (C11_Dated(r) /\ C11_OnBoundary(r) /\ C11_Eligible(r)) => one]_vars

\* A run of each mode's kind has read a record of the first day of the range
\* and one of the last day, and has a statement for each record it read.
C11_Witness ==
    /\ export = "ExportContinuousJoined" /\ pc = "loop"
    /\ \E a, b \in 1..Len(rows) :
         /\ C11_Dated(rows[a]) /\ C11_Day(rows[a].CreationDateTimeLocal) = C11_From
         /\ C11_Dated(rows[b]) /\ C11_Day(rows[b].CreationDateTimeLocal) = C11_To
    /\ Len(rows) = MaxRows
    /\ \E k \in 1..Len(rows) : C11_Dated(rows[k]) /\ ~C11_OnBoundary(rows[k])
    /\ C11_Count(InsertQueries) = Len(rows)

(***************************************************************************)
(* C12                                                                     *)
(***************************************************************************)
\* The record r names no site of the cross-reference
C12_Unknown(r) == r.LakeNum.t # "str" \/ r.LakeNum.v \notin C11_Keys

\* C12: in DEPLOYMENT_UPDATE and RETRIEVAL_UPDATE, the step that reads a record
\* whose LakeNum is not a Site Name of the cross-reference appends no statement,
\* writes nothing, reports nothing, and leaves the run in its loop, where the
\* records after it are read.
C12_UnknownSiteIsSkipped ==
    [][(/\ export = "ExportContinuousJoined" /\ pc = "loop"
        /\ args.ContinuousType \in C11_Updates
        /\ rows' # rows
        /\ C12_Unknown(rows'[Len(rows')]))
       => (/\ pc' = "loop"
           /\ UNCHANGED <<InsertQueries, SqlFile, messages>>)]_vars

\* An update run has ended without an error after a record of an unknown site,
\* dated or not, and a later record of a known site, whose statement is the
\* only one written.
C12_Witness ==
    /\ Completed("ExportContinuousJoined")
    /\ args.ContinuousType \in C11_Updates
    /\ Len(rows) = 3
    /\ C12_Unknown(rows[1]) /\ C11_Dated(rows[1]) /\ C11_Inside(rows[1])
    /\ C12_Unknown(rows[2]) /\ ~C11_Dated(rows[2])
    /\ ~C12_Unknown(rows[3]) /\ C11_Dated(rows[3]) /\ C11_Inside(rows[3])
    /\ C11_Count(SqlFile) = 1

(***************************************************************************)
(* C13                                                                     *)
(***************************************************************************)
TimeText(dt) ==
    <<ToString(dt.h \div 10), ToString(dt.h % 10), ":", ToString(dt.m \div 10), ToString(dt.m % 10),
      ":", ToString(dt.s \div 10), ToString(dt.s % 10)>>
\* The records read so far that the mode has a statement for
C13_Emitters ==
    SelectSeq(rows, LAMBDA r : C11_Dated(r) /\ C11_Inside(r) /\ C11_Eligible(r))
\* The deployment date the cross-reference holds for a site: that of the last
\* of its rows that names the site
C13_DeployedOn(site) ==
    LET csv == args.DeployedCSV.rows
        k == CHOOSE a \in 1..Len(csv) :
               csv[a].SiteName = site /\ \A b \in (a + 1)..Len(csv) : csv[b].SiteName # site
    IN  csv[k].DateDeployed
C13_Where(r) ==
    <<"WHERE SiteName = '">> \o r.LakeNum.v \o <<"' AND DateDeployed = '">>
        \o C13_DeployedOn(r.LakeNum.v) \o <<"'\n\n">>
\* In text, the n-th UPDATE has one WHERE, which is the last thing of it and
\* names the site of r and the deployment date of the cross-reference; in
\* RETRIEVAL_UPDATE it begins by setting DateRetrieved and TimeRetrieved to the
\* date and the time of r, and nothing of the statement but those two
\* assignments and, if r has notes, the notes stands between quotes.
C13_UpdateOf(text, n, r) ==
    LET s == Statement(text, "UPDATE dbo.", n, "'\n\n")
        w == Idx(s, "WHERE SiteName = '")
        quoted == Cardinality(Idx(s, "'"))
    IN  /\ Cardinality(w) = 1
        /\ SubSeq(s, Nth(w, 1), Len(s)) = C13_Where(r)
        /\ args.ContinuousType = "RETRIEVAL_UPDATE" =>
             /\ At(s, 1, <<"UPDATE dbo.", "tblContinuousDataDeployments", "\n",
                           "SET [DateRetrieved] = '">>
                          \o DateText(r.CreationDateTimeLocal)
                          \o <<"',\n", "    [TimeRetrieved] = '">>
                          \o TimeText(r.CreationDateTimeLocal)
                          \o <<"',\n", "    [RetrieveLatitude] = ">>)
             /\ quoted = IF Trimmed(r.Comments.v) = <<>> THEN 0 ELSE 2
        /\ args.ContinuousType = "DEPLOYMENT_UPDATE" =>
             /\ At(s, 1, <<"UPDATE dbo.", "tblContinuousDataDeployments", "\n",
                           "SET [DeployLatitude] = ">>)
             /\ quoted = IF Trimmed(r.Comments.v) = <<>> THEN 0 ELSE 2

\* C13: in an update run that has not failed, in what the records have appended
\* and in what the run has written, there is one UPDATE for each record the
\* mode has a statement for, in their order, and each finds its row by WHERE
\* SiteName = the record's site AND DateDeployed = the deployment date the
\* cross-reference holds for that site; in RETRIEVAL_UPDATE the record's own
\* date and time are the values of DateRetrieved and TimeRetrieved and stand
\* nowhere else.
C13_WhereIsTheDeployment ==
    (export = "ExportContinuousJoined" /\ args.ContinuousType \in C11_Updates /\ ~Failed) =>
        /\ pc = "loop" => C11_Count(InsertQueries) = Len(C13_Emitters)
        /\ pc = "returned" => C11_Count(SqlFile) = Len(C13_Emitters)
        /\ \A n \in 1..C11_Count(InsertQueries) : C13_UpdateOf(InsertQueries, n, C13_Emitters[n])
        /\ \A n \in 1..C11_Count(SqlFile) : C13_UpdateOf(SqlFile, n, C13_Emitters[n])

\* A retrieval run has written the UPDATEs of two records, the first retrieved
\* on another day than the day its site was deployed.
C13_Witness ==
    /\ Completed("ExportContinuousJoined")
    /\ args.ContinuousType = "RETRIEVAL_UPDATE"
    /\ Len(C13_Emitters) = 2 /\ C11_Count(SqlFile) = 2
    /\ DateText(C13_Emitters[1].CreationDateTimeLocal) # C13_DeployedOn(C13_Emitters[1].LakeNum.v)
    /\ DateText(C13_Emitters[2].CreationDateTimeLocal) = C13_DeployedOn(C13_Emitters[2].LakeNum.v)

(***************************************************************************)
(* C14                                                                     *)
(***************************************************************************)
C14_Longitude ==
    IF args.ContinuousType = "DEPLOYMENT_UPDATE" THEN "    [DeployLongitude] = "
    ELSE "    [RetrieveLongitude] = "
C14_Notes ==
    IF args.ContinuousType = "DEPLOYMENT_UPDATE" THEN "    [DeploymentNotes] = "
    ELSE "    [RetrievalNotes] = "
C14_NotesCommentedOut ==
    IF args.ContinuousType = "DEPLOYMENT_UPDATE" THEN "--  [DeploymentNotes] = "
    ELSE "--  [RetrievalNotes] = "
\* The ends of a line: after another assignment, after the last one
C14_LineEnds == {",\n", "\n"}
\* The place in s of the first end of line from place p on
C14_EndOfLine(s, p) ==
    CHOOSE x \in p..Len(s) : s[x] \in C14_LineEnds /\ \A y \in p..(x - 1) : s[y] \notin C14_LineEnds

\* In text, the SET clause of the n-th UPDATE: the longitude is assigned once;
\* without KeepUpdateNotes its line ends without a comma, the line after it is
\* the notes as a comment, the WHERE follows, and no line assigns the notes;
\* with KeepUpdateNotes its line ends with a comma, the line after it assigns
\* the notes and ends without a comma, the WHERE follows, and no line is a
\* comment.
C14_SetOf(text, n) ==
    LET s == Statement(text, "UPDATE dbo.", n, "'\n\n")
        lon == Idx(s, C14_Longitude)
        e == C14_EndOfLine(s, Nth(lon, 1))
        f == C14_EndOfLine(s, e + 1)
    IN  /\ Cardinality(lon) = 1
        /\ s[f] = "\n" /\ s[f + 1] = "WHERE SiteName = '"
        /\ IF args.KeepUpdateNotes
           THEN /\ s[e] = ",\n" /\ s[e + 1] = C14_Notes
                /\ Idx(s, C14_Notes) = {e + 1}
                /\ Idx(s, C14_NotesCommentedOut) = {}
           ELSE /\ s[e] = "\n" /\ s[e + 1] = C14_NotesCommentedOut
                /\ Idx(s, C14_NotesCommentedOut) = {e + 1}
                /\ Idx(s, C14_Notes) = {}

\* C14: in an update run that has not failed, in what the records have appended
\* and in what the run has written, every UPDATE of a call without
\* KeepUpdateNotes has the notes only as a commented-out line and no comma
\* after the longitude, its last assignment; every UPDATE of a call with
\* KeepUpdateNotes assigns the notes after the longitude.
C14_NotesAreKeptOnlyOnRequest ==
    (export = "ExportContinuousJoined" /\ args.ContinuousType \in C11_Updates /\ ~Failed) =>
        /\ \A n \in 1..C11_Count(InsertQueries) : C14_SetOf(InsertQueries, n)
        /\ \A n \in 1..C11_Count(SqlFile) : C14_SetOf(SqlFile, n)

\* A deployment update without KeepUpdateNotes has written the UPDATEs of a
\* record with notes and of one without.
C14_Witness ==
    /\ Completed("ExportContinuousJoined")
    /\ args.ContinuousType = "DEPLOYMENT_UPDATE" /\ ~args.KeepUpdateNotes
    /\ C11_Count(SqlFile) = Len(C13_Emitters)
    /\ \E a, b \in 1..Len(C13_Emitters) :
         /\ Trimmed(C13_Emitters[a].Comments.v) # <<>>
         /\ Trimmed(C13_Emitters[b].Comments.v) = <<>>

(***************************************************************************)
(* C15                                                                     *)
(***************************************************************************)
\* In text, the n-th INSERT is one into tblContinuousDataDeployments whose
\* values begin with the site of r and the date and the time r was created.
C15_InsertOf(text, n, r) ==
    LET s == Statement(text, "INSERT INTO dbo.", n, ")\n\n")
    IN  /\ At(s, 1, <<"INSERT INTO dbo.", "tblContinuousDataDeployments", "\n">>)
        /\ s[4] = "([SiteName] ,[DateDeployed] ,[TimeDeployed] ,[DeploymentType] ,[DeployLatitude] ,[DeployLongitude] ,[DeploymentNotes])\n"
        /\ At(s, 5, <<"VALUES (", "'">> \o r.LakeNum.v \o <<"', '">>
                      \o DateText(r.CreationDateTimeLocal) \o <<"', '">>
                      \o TimeText(r.CreationDateTimeLocal) \o <<"'">>)
        /\ Cardinality(Idx(s, "VALUES (")) = 1

\* C15: in a DEPLOYMENT_INSERT run that has not failed, what the records have
\* appended, and then what the run has written, holds as many INSERT INTO
\* tblContinuousDataDeployments as records were read whose date is inside
\* [fromDate, toDate], and the n-th carries the SiteName of the n-th such record
\* and the date of its creation as DateDeployed; no UPDATE is among them.
C15_OneInsertPerRecordInRange ==
    (export = "ExportContinuousJoined" /\ args.ContinuousType = "DEPLOYMENT_INSERT" /\ ~Failed) =>
        /\ pc = "loop" => C11_Count(InsertQueries) = Len(C13_Emitters)
        /\ pc = "returned" => C11_Count(SqlFile) = Len(C13_Emitters)
        /\ Idx(InsertQueries, "UPDATE dbo.") = {} /\ Idx(SqlFile, "UPDATE dbo.") = {}
        /\ \A n \in 1..C11_Count(InsertQueries) : C15_InsertOf(InsertQueries, n, C13_Emitters[n])
        /\ \A n \in 1..C11_Count(SqlFile) : C15_InsertOf(SqlFile, n, C13_Emitters[n])

\* A DEPLOYMENT_INSERT run has read a record of site L7 of 2023-09-12, inside
\* the range 2023-09-08 to 2023-09-25, and one of 2023-09-30, and has written
\* one INSERT.
C15_Witness ==
    /\ Completed("ExportContinuousJoined")
    /\ args.ContinuousType = "DEPLOYMENT_INSERT"
    /\ C11_From = 20230908 /\ C11_To = 20230925
    /\ \E a, b \in 1..Len(rows) :
         /\ C11_Dated(rows[a]) /\ C11_Day(rows[a].CreationDateTimeLocal) = 20230912
         /\ rows[a].LakeNum.v = <<"L7">>
         /\ C11_Dated(rows[b]) /\ C11_Day(rows[b].CreationDateTimeLocal) = 20230930
    /\ Len(rows) = 2
    /\ C11_Count(SqlFile) = 1

(***************************************************************************)
(* C16                                                                     *)
(***************************************************************************)
\* The tokens of a number, and the number that stands in s from place p on
C16_NumChars == {"-", ".", "0", "1", "2", "3", "4", "5", "6", "7", "8", "9"}
C16_Literal(s, p) ==
    LET E == {q \in p..Len(s) : \A j \in p..q : s[j] \in C16_NumChars}
    IN  IF E = {} THEN <<>> ELSE SubSeq(s, p, CHOOSE q \in E : \A x \in E : x <= q)
\* A decimal text with the zeros appended that fill it to k decimal places
C16_Padded(lit, k) ==
    LET dot == First(lit, 1, ".")
        have == IF dot = 0 THEN 0 ELSE Len(lit) - dot
    IN  lit \o (IF dot = 0 THEN <<".">> ELSE <<>>) \o [j \in 1..(k - have) |-> "0"]
\* The decimal texts with k decimal places that no other is nearer to the float x
C16_Rounded(x, k) ==
    LET a == Abs(x.v)
        unit == IF x.d > k THEN Pow10(x.d - k) ELSE 1
        scaled == IF x.d > k THEN a ELSE a * Pow10(k - x.d)
    IN  {(IF x.v < 0 THEN <<"-">> ELSE <<>>) \o NatDigits(t \div Pow10(k)) \o <<".">>
            \o [j \in 1..k |-> ToString((t \div Pow10(k - j)) % 10)] :
            t \in {u \in (scaled \div unit)..(scaled \div unit + 1) :
                     2 * Abs(scaled - u * unit) <= unit}}
\* lit is the float x rounded to k decimal places
C16_IsRounded(lit, x, k) == lit # <<>> /\ C16_Padded(lit, k) \in C16_Rounded(x, k)

\* The exports that write coordinates, the token their statements begin with,
\* the token they end with, and the records the statements are of
C16_Exports == {"ExportDepthJoined", "ExportLoonsJoined", "ExportMonumentJoined",
                "ExportContinuousJoined"}
C16_Head ==
    CASE export = "ExportDepthJoined" -> C2_Insert("ExportDepthJoined")
      [] export \in {"ExportLoonsJoined", "ExportMonumentJoined"} -> "INSERT INTO "
      [] export = "ExportContinuousJoined" -> C11_Head
C16_Tail ==
    CASE export \in {"ExportDepthJoined", "ExportLoonsJoined"} -> "');\n"
      [] export = "ExportMonumentJoined" -> ")\n"
      [] export = "ExportContinuousJoined" ->
           IF args.ContinuousType = "DEPLOYMENT_INSERT" THEN ")\n\n" ELSE "'\n\n"
C16_Records ==
    CASE export \in {"ExportDepthJoined", "ExportLoonsJoined"} -> Survivors
      [] export = "ExportMonumentJoined" -> rows
      [] export = "ExportContinuousJoined" -> C13_Emitters
\* Where the latitude and the longitude stand in the statement s
C16_LatitudeAt(s) ==
    CASE export \in {"ExportDepthJoined", "ExportMonumentJoined"} -> First(s, 1, "',") + 1
      [] export = "ExportLoonsJoined" ->
           (LET P == Idx(s, "',") \cup Idx(s, ",NULL,")
            IN  CHOOSE q \in P : \A x \in P : x <= q) + 1
      [] export = "ExportContinuousJoined" ->
           First(s, 1, CASE args.ContinuousType = "DEPLOYMENT_INSERT" -> ", "
                         [] args.ContinuousType = "DEPLOYMENT_UPDATE" -> "SET [DeployLatitude] = "
                         [] args.ContinuousType = "RETRIEVAL_UPDATE" -> "    [RetrieveLatitude] = ") + 1
C16_LongitudeAt(s) ==
    IF export = "ExportContinuousJoined" /\ args.ContinuousType \in C11_Updates
    THEN First(s, 1, C14_Longitude) + 1
    ELSE C16_LatitudeAt(s) + Len(C16_Literal(s, C16_LatitudeAt(s))) + 1
C16_CoordinatesOf(text, n, r) ==
    LET s == Statement(text, C16_Head, n, C16_Tail)
    IN  /\ C16_IsRounded(C16_Literal(s, C16_LatitudeAt(s)), r.YCurrentMapCS, 6)
        /\ C16_IsRounded(C16_Literal(s, C16_LongitudeAt(s)), r.XCurrentMapCS, 6)

\* C16: in a run of the Depth, Loon or Monument export or of a Continuous mode
\* that has not failed, in what the records have appended and in what the run
\* has written, the latitude and the longitude of every statement are the
\* YCurrentMapCS and the XCurrentMapCS of its record rounded to 6 decimal
\* places.
C16_CoordinatesAreRounded ==
    (export \in C16_Exports /\ pc \in {"loop", "returned"} /\ ~Failed) =>
        /\ \A n \in 1..Cardinality(Idx(InsertQueries, C16_Head)) :
              C16_CoordinatesOf(InsertQueries, n, C16_Records[n])
        /\ \A n \in 1..Cardinality(Idx(SqlFile, C16_Head)) :
              C16_CoordinatesOf(SqlFile, n, C16_Records[n])

(***************************************************************************)
(* C17                                                                     *)
(***************************************************************************)
\* The exports that write a depth, the token their statements begin with, the
\* token they end with, and the depth of a record
C17_Exports == {"ExportSecchiJoined", "ExportDepthJoined", "ExportWaterSampleJoined"}
C17_Head ==
    CASE export = "ExportSecchiJoined" -> C5_Update
      [] export = "ExportDepthJoined" -> C2_Insert("ExportDepthJoined")
      [] export = "ExportWaterSampleJoined" -> C9_Insert
C17_Tail ==
    CASE export = "ExportSecchiJoined" -> "'\n\n"
      [] export = "ExportDepthJoined" -> "');\n"
      [] export = "ExportWaterSampleJoined" -> ")\n"
C17_Depth(r) ==
    IF export = "ExportSecchiJoined" THEN r.Secchi_Depth_in_meters ELSE r.Depth_in_meters
\* Where the depth stands in the statement s: in Secchi after SECCHIDEPTH = ,
\* in Depth after the latitude and the longitude, in Water Sample after the
\* sample depth
C17_DepthAt(s) ==
    CASE export = "ExportSecchiJoined" -> 2
      [] export = "ExportDepthJoined" ->
           C16_LongitudeAt(s) + Len(C16_Literal(s, C16_LongitudeAt(s))) + 1
      [] export = "ExportWaterSampleJoined" ->
           LET a == First(s, 1, "',") + 1
           IN  a + Len(C16_Literal(s, a)) + 1
C17_DepthOf(text, n, r) ==
    LET s == Statement(text, C17_Head, n, C17_Tail)
    IN  IF C17_Depth(r) = None THEN s[C17_DepthAt(s)] = "NULL"
        ELSE C16_IsRounded(C16_Literal(s, C17_DepthAt(s)), C17_Depth(r), 1)

\* C17: in a run of the Secchi, Depth or Water Sample export that has not
\* failed, in what the records have appended and in what the run has written,
\* the depth of the statement of every record with a creation date is the
\* record's depth rounded to 1 decimal place (NULL for a null depth).
C17_DepthsAreRounded ==
    (export \in C17_Exports /\ pc \in {"loop", "returned"} /\ ~Failed) =>
        /\ \A n \in 1..Cardinality(Idx(InsertQueries, C17_Head)) :
              C17_DepthOf(InsertQueries, n, Survivors[n])
        /\ \A n \in 1..Cardinality(Idx(SqlFile, C17_Head)) :
              C17_DepthOf(SqlFile, n, Survivors[n])

(***************************************************************************)
(* C18                                                                     *)
(***************************************************************************)
\* The token the statements of the export begin with, the token they end with,
\* and the records the statements are of
C18_Head ==
    CASE export \in C17_Exports -> C17_Head
      [] export \in {"ExportLoonsJoined", "ExportMonumentJoined"} -> "INSERT INTO "
      [] export = "ExportContinuousJoined" -> C11_Head
C18_Tail ==
    CASE export \in C17_Exports -> C17_Tail
      [] export \in {"ExportLoonsJoined", "ExportMonumentJoined", "ExportContinuousJoined"} -> C16_Tail
C18_Records ==
    CASE export \in C17_Exports -> Survivors
      [] export \in {"ExportLoonsJoined", "ExportMonumentJoined", "ExportContinuousJoined"} -> C16_Records
\* The notes and comments of a record
C18_Fields(r) ==
    CASE export = "ExportSecchiJoined" -> <<r.Comments>>
      [] export \in {"ExportDepthJoined", "ExportWaterSampleJoined"} -> <<r.Comment>>
      [] export = "ExportLoonsJoined" -> <<r.Loon_Comments>>
      [] export = "ExportMonumentJoined" -> <<r.Location, r.Comment>>
      [] export = "ExportContinuousJoined" -> <<r.Comments>>
\* How the export writes a null, opens a quoted text and closes it
C18_Null ==
    CASE export = "ExportSecchiJoined" -> "SECCHINOTES = NULL"
      [] export \in {"ExportDepthJoined", "ExportLoonsJoined"} -> ",NULL,'"
      [] export \in {"ExportWaterSampleJoined", "ExportMonumentJoined"} -> ",NULL"
      [] export = "ExportContinuousJoined" ->
           IF args.ContinuousType = "DEPLOYMENT_INSERT" THEN ", NULL" ELSE "NULL"
C18_Open ==
    CASE export = "ExportSecchiJoined" -> "SECCHINOTES = '"
      [] export \in {"ExportDepthJoined", "ExportLoonsJoined", "ExportWaterSampleJoined",
                     "ExportMonumentJoined"} -> ",'"
      [] export = "ExportContinuousJoined" ->
           IF args.ContinuousType = "DEPLOYMENT_INSERT" THEN ", '" ELSE "'"
C18_Close == IF export \in {"ExportDepthJoined", "ExportLoonsJoined"} THEN "','" ELSE "'"
\* Where the first notes stand in the statement s
C18_NotesAt(s) ==
    CASE export = "ExportSecchiJoined" -> First(s, 1, ", ") + 1
      [] export = "ExportDepthJoined" -> C17_DepthAt(s) + Len(C16_Literal(s, C17_DepthAt(s)))
      [] export = "ExportLoonsJoined" -> C16_LongitudeAt(s) + Len(C16_Literal(s, C16_LongitudeAt(s)))
      [] export = "ExportWaterSampleJoined" ->
           (LET P == Idx(s, ",NULL") \cup Idx(s, ",'") IN CHOOSE q \in P : \A x \in P : x <= q)
      [] export = "ExportMonumentJoined" -> Nth(Idx(s, "'"), 2) + 1
      [] export = "ExportContinuousJoined" ->
           IF args.ContinuousType = "DEPLOYMENT_INSERT"
           THEN C16_LongitudeAt(s) + Len(C16_Literal(s, C16_LongitudeAt(s)))
           ELSE First(s, 1, IF args.KeepUpdateNotes THEN C14_Notes ELSE C14_NotesCommentedOut) + 1
\* The texts a notes c may be quoted as: as it is, or without the white space
\* at its ends
C18_Quoted(c) == {<<C18_Open>> \o t \o <<C18_Close>> : t \in {c, Trimmed(c)}}
\* At place p of s stand the notes c: NULL when c is blank, quoted otherwise
C18_FieldIs(s, p, c) ==
    IF Trimmed(c) = <<>> THEN s[p] = C18_Null
    ELSE \E q \in C18_Quoted(c) : At(s, p, q)
\* The place after the notes c that stand at place p of s
C18_After(s, p, c) ==
    IF Trimmed(c) = <<>> THEN p + 1
    ELSE p + Len(Until(s, p + 1, C18_Close)) + 2
\* In text, the n-th statement has the notes of r as NULL or quoted
C18_NotesOf(text, n, r) ==
    LET s == Statement(text, C18_Head, n, C18_Tail)
        f == C18_Fields(r)
        p == C18_NotesAt(s)
    IN  /\ C18_FieldIs(s, p, f[1].v)
        /\ Len(f) = 2 => C18_FieldIs(s, C18_After(s, p, f[1].v), f[2].v)
        /\ \A j \in 1..(Len(s) - 1) : ~(s[j] = C18_Open /\ s[j + 1] = C18_Close)

\* C18: in a run of any export that has not failed, in what the records have
\* appended and in what the run has written, the notes of a statement (Secchi
\* notes, Depth comments, Loon comments, Water Sample notes, Monument location
\* notes and comments, Continuous deployment and retrieval notes) are the SQL
\* NULL when the record's field is empty or white space only, and the field's
\* text between quotes otherwise; no statement has an empty quoted string.
C18_BlankNotesAreNull ==
    (export \in Exports /\ pc \in {"loop", "returned"} /\ ~Failed) =>
        /\ \A n \in 1..Cardinality(Idx(InsertQueries, C18_Head)) :
              C18_NotesOf(InsertQueries, n, C18_Records[n])
        /\ \A n \in 1..Cardinality(Idx(SqlFile, C18_Head)) :
              C18_NotesOf(SqlFile, n, C18_Records[n])

\* A Monument run has written the INSERTs of a record whose location notes are
\* white space and whose comment is empty, and of a record that has both.
C18_Witness ==
    /\ Completed("ExportMonumentJoined")
    /\ Cardinality(Idx(SqlFile, C18_Head)) = Len(rows)
    /\ \E a, b \in 1..Len(rows) :
         /\ rows[a].Location.v # <<>> /\ Trimmed(rows[a].Location.v) = <<>>
         /\ rows[a].Comment.v = <<>>
         /\ Trimmed(rows[b].Location.v) # <<>> /\ Trimmed(rows[b].Comment.v) # <<>>

(***************************************************************************)
(* C19                                                                     *)
(***************************************************************************)
\* The errors a call of an export ends with in the model: a missing workspace
\* or a refused argument (AssertionError, Exception), an unreadable feature
\* class (ExecuteError), a missing field (KeyError), a null where a str or a
\* number is needed (TypeError, AttributeError), a local never assigned
\* (UnboundLocalError), an output path that cannot be written (OSError)
C19_Reported == \E k \in 1..Len(messages) : messages[k][1] = "Error in function "

\* C19: in a script of calls, no call of an export ends by an exception that
\* leaves it: a call that meets an error reports it as a message that names the
\* export and returns, it is the last thing the call does, and the script can
\* make its next call after a call that failed as after a call that did not.
C19_ExportsAreIsolated ==
    export \in Exports =>
        /\ pc \in {"call", "loop", "returned"}
        /\ C19_Reported =>
             /\ pc = "returned"
             /\ messages[Len(messages)][1] = "Error in function "
             /\ messages[Len(messages)][2] = export
             /\ Cardinality({k \in 1..Len(messages) : messages[k][1] = "Error in function "}) = 1
        /\ (pc = "returned" /\ (C19_Reported => failures < MaxFailures) /\ Later(now) # {})
             => ENABLED NextCall

\* After a call that failed, the next call of the script, of an export, has
\* written its statements and returned without an error.
C19_Witness ==
    /\ failures = 1
    /\ export \in Exports /\ pc = "returned" /\ ~C19_Reported
    /\ Len(rows) > 0
    /\ InsertQueries # <<>>
    /\ \E k \in 1..Len(SqlFile) : SqlFile[k] = InsertQueries[1]

(***************************************************************************)
(* C20                                                                     *)
(***************************************************************************)
\* The calls ExportContinuousJoined refuses: a ContinuousType that is none of
\* the three modes, an update mode without a csv.DictReader, DEPLOYMENT_INSERT
\* with a DeployedCSV that is not None
C20_Refused ==
    \/ args.ContinuousType \notin C11_Modes
    \/ /\ args.ContinuousType \in C11_Updates
       /\ (args.DeployedCSV = None \/ args.DeployedCSV.t # "DictReader")
    \/ args.ContinuousType = "DEPLOYMENT_INSERT" /\ args.DeployedCSV # None

C21_Opens == export \in Exports /\ workspace # None
             /\ (export = "ExportContinuousJoined" => ~C20_Refused)
\* The path the call gives to open(SqlFilePath, 'a')
C21_PathOfCall == IF export = "ExportContinuousJoined" THEN ContinuousFilePath(args, now)
                  ELSE InsertFilePath(export, now)

\* C21: every export run writes to a file that no other run writes to: when a
\* script makes its next call after a call that has opened a file, whatever the
\* two exports are and however little time lies between them, the next call
\* opens another file than the call before.
C21_FilesAreDistinct ==
    [][(pc = "returned" /\ pc' = "call" /\ SqlFilePath # None /\ C21_Opens')
         => C21_PathOfCall' # SqlFilePath]_vars

(***************************************************************************)
(* C22                                                                     *)
(***************************************************************************)
\* The tokens an INSERT and an UPDATE statement begin with
C22_Inserts == {C6_Insert, C9_Insert, C2_Insert("ExportDepthJoined"), "INSERT INTO ",
                "INSERT INTO dbo."}
C22_Updates == {C5_Update, "UPDATE dbo."}
\* The statements of text that are not comments
C22_Active(text, heads) ==
    {p \in 1..Len(text) : text[p] \in heads /\ (p > 1 => text[p - 1] # C6_Comment)}
\* The feature class the export reads
C22_FeatureClass ==
    IF export = "ExportContinuousJoined" THEN FeatureClassOf(args.ContinuousType)
    ELSE FEATURE_CLASS(export)
\* <sourceName>_<FeatureClassName>_<Operation>[_<fromDate>_to_<toDate>]_<timestamp>.sql
\* in the directory of the geodatabase
C22_Name(op) ==
    DirName \o <<"/">> \o SOURCE_FILE_NAME \o <<"_", C22_FeatureClass, "_", op, "_">>
    \o (IF export = "ExportContinuousJoined"
        THEN args.fromDate \o <<"_to_">> \o args.toDate \o <<"_">> ELSE <<>>)
    \o GetCurrentDatetimeStr(now) \o <<".sql">>

\* C22: the file an export has opened is named
\* <sourceName>_<FeatureClassName>_<Operation>_<timestamp>.sql, with
\* _<fromDate>_to_<toDate> before the timestamp exactly for the Continuous
\* exports, and Operation is Insert when the file holds INSERT statements and
\* Update when it holds UPDATE statements.
C22_NameTellsTheOperation ==
    (export \in Exports /\ SqlFilePath # None) =>
        \E op \in {"Insert", "Update"} :
            /\ SqlFilePath = C22_Name(op)
            /\ C22_Active(SqlFile, C22_Inserts) # {} => op = "Insert"
            /\ C22_Active(SqlFile, C22_Updates) # {} => op = "Update"

(***************************************************************************)
(* C23                                                                     *)
(***************************************************************************)
C23_Exports == {"ExportMonumentJoined", "ExportContinuousJoined"}
\* The lines of the shell, in the order the claim gives them
C23_Lines == <<"BEGIN TRY\n", "    BEGIN TRANSACTION\n\n", "\n     COMMIT TRANSACTION\n",
               "END TRY\n", "BEGIN CATCH -- ROLLBACK\n", "    IF @@TRANCOUNT > 0\n",
               "    BEGIN\n", "        ROLLBACK TRANSACTION\n",
               "        PRINT N'Rolling back transaction; NO records have been inserted.'\n",
               "    END\n", "END CATCH\n\n">>
\* The place of the k-th line of the shell
C23_Place(k) == First(SqlFile, 1, C23_Lines[k])
\* The head of a statement of the export
C23_Head == IF export = "ExportMonumentJoined" THEN "INSERT INTO " ELSE C11_Head

\* C23: the Monument and Continuous exports write no IF/BEGIN/END guard: after
\* the file header comes the shell, each line of it once and in order, and the
\* whole statement body stands verbatim, once, between BEGIN TRANSACTION and
\* COMMIT TRANSACTION, inside BEGIN TRY .. END TRY; ROLLBACK TRANSACTION and its
\* PRINT stand only in the BEGIN CATCH block, under IF @@TRANCOUNT > 0.
C23_BodyIsWrappedOnce ==
    (\E f \in C23_Exports : Completed(f)) =>
        LET last == Len(C23_Lines)
            place == [k \in 1..last |-> C23_Place(k)]
            shell == {C23_Lines[k] : k \in 1..last}
        IN  /\ \A k \in 1..last : place[k] > 0
            /\ Cardinality({q \in 1..Len(SqlFile) : SqlFile[q] \in shell}) = last
            /\ \A k \in 1..(last - 1) : place[k] < place[k + 1]
            /\ SqlFile[place[1] - 1] = "*/\n\n"
            /\ Idx(SqlFile, "*/\n\n") = {place[1] - 1}
            /\ place[2] = place[1] + 1
            /\ SubSeq(SqlFile, place[2] + 1, place[3] - 1) = InsertQueries
            /\ Cardinality(Idx(SqlFile, C23_Head)) = Cardinality(Idx(InsertQueries, C23_Head))
            /\ place[last] = Len(SqlFile)
            /\ EventExistsQuery = <<>> /\ RecordExistsQuery = <<>> /\ ValidateQuery = <<>>

\* A Monument export has wrapped the statements of two records.
C23_Witness ==
    /\ Completed("ExportMonumentJoined")
    /\ Cardinality(Idx(InsertQueries, "INSERT INTO ")) = 2
    /\ Cardinality(Idx(SqlFile, "INSERT INTO ")) = 2
    /\ Cardinality(Idx(SqlFile, "BEGIN TRY\n")) = 1

(***************************************************************************)
(* C24                                                                     *)
(***************************************************************************)
\* The rows of the cross-reference source, in source order
C24_Source == args.DeployedCSV.rows
\* The last row of a site
C24_Last(site) ==
    CHOOSE a \in 1..Len(C24_Source) :
        /\ C24_Source[a].SiteName = site
        /\ \A b \in (a + 1)..Len(C24_Source) : C24_Source[b].SiteName # site
\* The call has built its map: an update mode given a csv.DictReader
C24_Built ==
    /\ export = "ExportContinuousJoined" /\ pc # "call"
    /\ args.ContinuousType \in C11_Updates
    /\ args.DeployedCSV # None /\ args.DeployedCSV.t = "DictReader"

\* C24: the map built from a cross-reference source holds exactly the sites of
\* the source, each with the DateDeployed of its last row in source order,
\* also when a site has several rows, and building it produces no message.
C24_LastRowOfASiteWins ==
    C24_Built =>
        /\ DOMAIN mapDeployment = {C24_Source[k].SiteName : k \in 1..Len(C24_Source)}
        /\ \A site \in DOMAIN mapDeployment :
               mapDeployment[site] = C24_Source[C24_Last(site)].DateDeployed
        /\ (pc = "loop" /\ rows = <<>>) => messages = <<>>
        /\ \A k \in 1..Len(messages) : messages[k][1] = "Error in function "

\* The map has been built from a source where a site has two rows with two
\* dates and another site stands between them.
C24_Witness ==
    /\ C24_Built /\ pc = "loop" /\ messages = <<>>
    /\ \E a, b \in 1..Len(C24_Source) :
          /\ a < b /\ C24_Source[a].SiteName = C24_Source[b].SiteName
          /\ C24_Source[a].DateDeployed # C24_Source[b].DateDeployed
          /\ mapDeployment[C24_Source[b].SiteName] = C24_Source[b].DateDeployed
    /\ Cardinality(DOMAIN mapDeployment) = 2

(***************************************************************************)
(* C25                                                                     *)
(***************************************************************************)
\* C25: GetFeatureClassRows returns one record per row of the feature class,
\* in the cursor's order, none left out and no value changed: the i-th record
\* holds exactly the field names of the feature class and maps the j-th name
\* to the j-th value of the i-th row.  The list it is building is at every
\* turn of its loop the records of the rows read so far.
C25_OneRecordPerRow ==
    export = "GetFeatureClassRows" =>
        /\ Len(DList) <= Len(cursor)
        /\ pc = "returned" => Len(DList) = Len(cursor)
        /\ \A k \in 1..Len(DList) :
              /\ DOMAIN DList[k] = {FieldNames[j] : j \in 1..Len(FieldNames)}
              /\ \A j \in 1..Len(FieldNames) : DList[k][FieldNames[j]] = cursor[k][j]

\* GetFeatureClassRows has returned the records of three rows of two fields,
\* the rows not all alike and one with a null.
C25_Witness ==
    /\ export = "GetFeatureClassRows" /\ pc = "returned"
    /\ Len(DList) = 3 /\ Len(FieldNames) = 2
    /\ DList[1] # DList[2] /\ DList[2] # DList[3]
    /\ \E k \in 1..3 : DList[k][FieldNames[2]] = None /\ DList[k][FieldNames[1]] # None

(***************************************************************************)
(* C26                                                                     *)
(***************************************************************************)
\* The records read that an update run over the cross-reference source has a
\* statement for
C26_Updated ==
    {k \in 1..Len(rows) : /\ C11_Dated(rows[k]) /\ C11_Inside(rows[k])
                          /\ C11_Eligible(rows[k])}

\* C26: an update call of ExportContinuousJoined yields what the first call
\* with its DeployedCSV object yields, whatever calls the script made before
\* it, the call before with the same object included: the map of the rows of
\* the object's source, and one UPDATE for each record of a site of the source
\* dated inside the range.
C26_RunsAreAlike ==
    C24_Built =>
        /\ mapDeployment = [site \in C11_Keys |-> C24_Source[C24_Last(site)].DateDeployed]
        /\ Completed("ExportContinuousJoined") =>
              C11_Count(InsertQueries) = Cardinality(C26_Updated)

(***************************************************************************)
(* C27                                                                     *)
(***************************************************************************)
\* The record r leaves the VEG_TYPE, or the collection flags, to no branch of
\* the code
C27_NotOnWater(r) == r.On_Water_ # PyStr(<<"Yes">>)
C27_NoAnswer(r) ==
    /\ r.Comment # None /\ r.Water_Bottles_Collected_ # None
    /\ Strip(r.Water_Bottles_Collected_.v) \notin {<<"Yes">>, <<"No">>}

\* C27: what a record gets depends on its own fields only: the step that reads
\* a Loon record whose On_Water_ is not 'Yes' leaves the VEG_TYPE it writes as
\* it is when the record is the first of its run, and the step that reads a
\* Water Sample record whose Water_Bottles_Collected_ is neither 'Yes' nor
\* 'No' leaves the five collection flags as they are when the record is the
\* first of its run, whatever records were read before.
C27_RecordsAreIndependent ==
    [][(pc = "loop" /\ rows' # rows /\ rows'[Len(rows')].CreationDateTimeLocal # None) =>
         LET r == rows'[Len(rows')]
         IN  /\ (export = "ExportLoonsJoined" /\ C27_NotOnWater(r))
                   => VegType' = LoonVegType(Str(r.On_Water_), Unbound)
             /\ (export = "ExportWaterSampleJoined" /\ C27_NoAnswer(r))
                   => Coll' = WaterSampleColl(Strip(r.Water_Bottles_Collected_.v), Unbound)]_vars

\* ---------------------------------------------------------------------------
\* C28
\* ---------------------------------------------------------------------------
\* The tokens that open the guard clause of a record
C28_Guards ==
    {"EXISTS (SELECT PondName FROM tblPonds WHERE Pondname = '",
     " EXISTS  (SELECT PONDNAME FROM tblEvents WHERE Pondname='",
     "    EXISTS  (SELECT PONDNAME FROM tblEvents WHERE Pondname='",
     " NOT EXISTS (SELECT * FROM tblLoons WHERE Pondname='"}
\* The places of text where a statement or a guard clause of a record begins
C28_OfRecords(text) ==
    {k \in 1..Len(text) : text[k] \in C22_Inserts \cup C22_Updates \cup C28_Guards}
\* In text, the statement that begins at place p and ends at place e names
\* the site
C28_Names(text, p, e, site) == \E q \in p..(e - Len(site) + 1) : At(text, q, site)

\* C28: in every export the statements and the guard clauses are written to
\* the file only after the loop over the records: while the loop runs, and
\* after a run that aborted on a record, the file holds no statement and no
\* guard clause of any record; after a run that completed, the file holds what
\* the records appended as it stands, one statement for each surviving record,
\* in the order of the records.
C28_OutputIsAllOrNothing ==
    export \in Exports =>
        /\ (pc \in {"call", "loop"} \/ Failed) => C28_OfRecords(SqlFile) = {}
        /\ (pc = "returned" /\ ~Failed) =>
             /\ InsertQueries # <<>> =>
                  \E q \in Idx(SqlFile, InsertQueries[1]) : At(SqlFile, q, InsertQueries)
             /\ LET heads == Idx(SqlFile, C18_Head)
                    records == C18_Records
                IN  /\ Cardinality(heads) = Len(records)
                    /\ \A n \in 1..Len(records) :
                          LET p == Nth(heads, n)
                              e == First(SqlFile, p, C18_Tail)
                              site == records[n].LakeNum.v
                          IN  C28_Names(SqlFile, p, e, site)

\* A Depth run aborted on its third record after two records had appended
\* their statements: the file is open and holds neither.
C28_Witness ==
    /\ export = "ExportDepthJoined" /\ pc = "returned" /\ Failed
    /\ Len(rows) = 3
    /\ Cardinality(Idx(InsertQueries, C18_Head)) = 2
    /\ SqlFile # <<>>
    /\ C28_OfRecords(SqlFile) = {}


\* ---------------------------------------------------------------------------
\* C29
\* ---------------------------------------------------------------------------
\* The primary key of the record r of the feature class fc, in upper case
C29_Key(fc, r) ==
    LET number == Str(r.Sample_Number__A__B__C_)
    IN  Upper(Str(r.LakeNum) \o DateText(r.CreationDateTimeLocal)
              \o (CASE fc = "Water_Sample_Joined" ->
                         IF Trimmed(number) = <<>> THEN <<"A">> ELSE number
                    [] fc = "Depth_Joined" -> TimeText(r.CreationDateTimeLocal)
                    [] OTHER -> <<>>))
\* How many of the dated records have the key k
C29_Count(fc, k) == Cardinality({n \in 1..Len(Survivors) : C29_Key(fc, Survivors[n]) = k})
C29_Keys(fc) == {C29_Key(fc, Survivors[n]) : n \in 1..Len(Survivors)}

\* C29: a call of a duplicate finder on one of the four feature classes
\* returns a dictionary that holds a key k with count c exactly when c > 1
\* dated records have the upper-cased primary key k (PondName and SampleDate,
\* with the Sample Number, 'A' when blank, for Water Sample and the GPS time
\* for Depth); keys that occur once are absent.
C29_FinderReturnsTheDuplicates ==
    (export \in Finders /\ pc # "call") =>
        LET fc == FeatureClassName(export)
        IN  /\ pc = "returned"
            /\ found.t = "dict"
            /\ \A k \in DOMAIN found.d : C29_Count(fc, k) > 1 /\ found.d[k] = C29_Count(fc, k)
            /\ \A k \in C29_Keys(fc) : C29_Count(fc, k) > 1 => k \in DOMAIN found.d


\* ---------------------------------------------------------------------------
\* C30
\* ---------------------------------------------------------------------------
\* The six feature types the script transforms
C30_Joined == {"WATER_SAMPLE", "DEPTH", "SECCHI", "LOON", "DEPLOYMENT", "RETRIEVAL"}

\* C30: for each of the six feature types joined by TransformTable, once
\* TransformTable has returned a feature class, its fields (those the keep
\* list keeps, renamed from Pathfinder to Positions, and the three added
\* fields CreationDateTimeLocal, XCurrentMapCS and YCurrentMapCS) include every
\* field the export of that feature type reads from a record, and the export
\* does not fail on a missing field.
C30_ExportFindsItsFields ==
    (/\ FeatureType \in C30_Joined
     /\ pc \in {"returned", "read", "KeyError"}
     /\ OutputFeatureClass # None) =>
        /\ {"CreationDateTimeLocal", "XCurrentMapCS", "YCurrentMapCS"}
               \subseteq OutputFeatureClass.fields
        /\ FieldsRead(FeatureType) \subseteq OutputFeatureClass.fields
        /\ pc # "KeyError"

\* The Loon export has read a record of a feature class that TransformTable
\* made of a Pathfinder feature class with a field the keep list leaves out.
C30_Witness ==
    /\ FeatureType = "LOON" /\ pc = "read"
    /\ "Point_ID" \in TargetFeatures.fields
    /\ "Point_ID" \notin OutputFeatureClass.fields
    /\ {"a___of_Adults", "Loon_Comments", "LakeNum"} \subseteq OutputFeatureClass.fields
    /\ "Comments" \notin OutputFeatureClass.fields

====
